---- MODULE Spec2Model ----
(***************************************************************************)
(* A model of airqdata: the IRCELINE metadata catalog and its nearest      *)
(* time series search (airqdata/irceline.py), the retrieval cache          *)
(* (resources/utils.py, resources/helpers.py) and the luftdaten.info       *)
(* sensor with its cleaning and hourly aggregation                         *)
(* (resources/luftdaten.py).                                               *)
(*                                                                         *)
(* Conventions.  Python strings that the code processes (lower, contains,  *)
(* split) are tuples of one-character strings; "mu" stands for the micro   *)
(* sign.  None is the empty tuple <<>> and a present value v is <<v>>.     *)
(* Measurement values are integers in tenths of a unit; NaN is a value     *)
(* outside the range of readings.  Timestamps are seconds.                 *)
(***************************************************************************)
EXTENDS Integers, Sequences, FiniteSets, TLC

VARIABLES
    cache,            \* files of the cache directory: file name -> <<>> or <<content>>
    api_ok,           \* IRCELINE API: endpoint -> whether it answers 2xx
    api_timeseries,   \* IRCELINE API: the rows the timeseries endpoint serves
    phenomena,        \* Metadata.phenomena
    stations,         \* Metadata.stations
    time_series,      \* Metadata.time_series
    initialized,      \* Metadata.initialized
    archive,          \* archive.luftdaten.info: day -> [ok, rows]
    sensor_type,      \* luftdaten Sensor.sensor_type
    measurements,     \* luftdaten Sensor.measurements
    hourly_coverage,  \* luftdaten Sensor.hourly_coverage
    hourly_means,     \* luftdaten Sensor.hourly_means
    requests,         \* cache files passed to retrieve by the last call, in order
    call,             \* the last call and its arguments
    ret,              \* what the last call returned
    err,              \* the exception the last call raised, "" when it returned
    warned,           \* the warnings the last fetch of the irceline Sensor emitted
    today,            \* the clock: the current instant, in seconds UTC
    api_data,         \* IRCELINE API: [ok, days], the days the data endpoint has values for
    irceline_sensor,  \* the irceline Sensor: None before its construction, or <<object>>
    urls,             \* the URLs the last fetch of IRCELINE data passed to retrieve
    sensor_api,       \* api.luftdaten.info: [ok, content], what the sensor URL answers
    metadata,         \* luftdaten Sensor.metadata
    current_values,   \* luftdaten Sensor.current_values
    downloaded,       \* whether the last call of retrieve made a request to its URL
    sheet,            \* the InfluencAir sensor sheet: [ok, content], what its export URL answers
    registry,         \* influencair Metadata: [sensors, initialized]
    influencair_sensor,  \* the influencair Sensor: [sensor_id, influencair_metadata, chip_id, label]
    message,          \* the message of the exception the last call on the registry raised
    threads           \* thread -> [pc, table]: its step of the lazy first use of the
                      \* catalog and the table it has built and not yet assigned

irceline_vars == <<today, api_data, irceline_sensor, urls>>

\* The state beside the catalog, the luftdaten sensor and the call record.
update_vars == <<sensor_api, metadata, current_values>>

\* The state the IRCELINE operations leave alone, beside the luftdaten fetches.
registry_vars == <<sheet, registry, influencair_sensor, message>>

further_vars == <<update_vars, downloaded, registry_vars, threads>>

other_vars == <<warned, irceline_vars, further_vars>>

vars == <<cache, api_ok, api_timeseries, phenomena, stations, time_series,
          initialized, archive, sensor_type, measurements, hourly_coverage,
          hourly_means, requests, call, ret, err, other_vars>>

metadata_vars == <<api_ok, api_timeseries, phenomena, stations, time_series, initialized>>

luftdaten_vars == <<archive, sensor_type, measurements, hourly_coverage, hourly_means>>

(***************************************************************************)
(* Bounds of the model.                                                    *)
(***************************************************************************)
MaxSeries == 3

MaxLen == 9

MaxDay == 2

\* The dates an IRCELINE fetch is asked for are 1..MaxDate.
MaxDate == 4

(***************************************************************************)
(* Strings.                                                                *)
(***************************************************************************)
\* A sequence given as a function, with its elements evaluated.
AsSeq(f) == f \o <<>>

None == <<>>

Some(v) == <<v>>

\* The lowercase letter of each uppercase letter.
LOWERCASE == [A |-> "a", B |-> "b", C |-> "c", D |-> "d", E |-> "e", F |-> "f", G |-> "g",
              H |-> "h", I |-> "i", J |-> "j", K |-> "k", L |-> "l", M |-> "m", N |-> "n",
              O |-> "o", P |-> "p", Q |-> "q", R |-> "r", S |-> "s", T |-> "t", U |-> "u",
              V |-> "v", W |-> "w", X |-> "x", Y |-> "y", Z |-> "z"]

UPPERCASE == DOMAIN LOWERCASE

LowerChar(c) == IF c \in UPPERCASE THEN LOWERCASE[c] ELSE c

\* str.lower()
Lower(s) == AsSeq([i \in 1..Len(s) |-> LowerChar(s[i])])

\* Series.str.contains(pat): a regular expression search; of the
\* metacharacters only "." occurs in the names used, and matches any character.
Contains(s, pat) ==
    \E off \in 0..(Len(s) - Len(pat)) :
        \A i \in 1..Len(pat) : pat[i] = "." \/ pat[i] = s[off + i]

\* The position of the first occurrence of sep in s, 0 when there is none.
Find(s, sep) ==
    LET hits == {p \in 1..(Len(s) - Len(sep) + 1) :
                    \A i \in 1..Len(sep) : s[p + i - 1] = sep[i]}
    IN  IF hits = {} THEN 0 ELSE CHOOSE p \in hits : \A q \in hits : p <= q

\* label.split(sep=" - ", maxsplit=1)[0]
SplitHead(s, sep) ==
    LET at == Find(s, sep)
    IN  IF at = 0 THEN s ELSE SubSeq(s, 1, at - 1)

\* s with its trailing blanks removed
RStrip(s) ==
    LET keep == {n \in 0..Len(s) : n = 0 \/ s[n] # " "}
    IN  SubSeq(s, 1, CHOOSE n \in keep : \A m \in keep : m <= n)

\* s.rsplit(maxsplit=1)[0]: what precedes the last run of blanks
RSplitHead(s) ==
    LET t == RStrip(s)
        blanks == {p \in 1..Len(t) : t[p] = " "}
    IN  IF blanks = {} THEN t
        ELSE RStrip(SubSeq(t, 1, (CHOOSE p \in blanks : \A q \in blanks : q <= p) - 1))

DIGITS == <<"0", "1", "2", "3", "4", "5", "6", "7", "8", "9">>

DigitValue(c) == (CHOOSE k \in 1..Len(DIGITS) : DIGITS[k] = c) - 1

\* astype("int") of a string of decimal digits
RECURSIVE AsInt(_)
AsInt(s) ==
    IF Len(s) = 0 THEN 0
    ELSE 10 * AsInt(SubSeq(s, 1, Len(s) - 1)) + DigitValue(s[Len(s)])

(***************************************************************************)
(* Phenomenon names.                                                       *)
(***************************************************************************)
PM25_SHORT == <<"p", "m", "2", ".", "5">>

PM25_LONG == <<"P", "a", "r", "t", "i", "c", "u", "l", "a", "t", "e", " ",
               "M", "a", "t", "t", "e", "r", " ", "<", " ", "2", ".", "5", " ", "mu", "m">>

\* The short name as a catalog may spell it.
PM25_UPPER == <<"P", "M", "2", ".", "5">>

PM10_SHORT == <<"p", "m", "1", "0">>

PM10_LONG == <<"P", "a", "r", "t", "i", "c", "u", "l", "a", "t", "e", " ",
               "M", "a", "t", "t", "e", "r", " ", "<", " ", "1", "0", " ", "mu", "m">>

TEMPERATURE == <<"t", "e", "m", "p", "e", "r", "a", "t", "u", "r", "e">>

HUMIDITY == <<"h", "u", "m", "i", "d", "i", "t", "y">>

REL_HUMIDITY == <<"r", "e", "l", "a", "t", "i", "v", "e", " ",
                  "h", "u", "m", "i", "d", "i", "t", "y">>

\* The groups of equivalent names, each in the order its members are iterated.
EQUIVALENT_PHENOMENA == << <<PM25_SHORT, PM25_LONG>>,
                           <<PM10_SHORT, PM10_LONG>>,
                           <<TEMPERATURE>> >>

(***************************************************************************)
(* Great circle distance.  Coordinates are degrees, multiples of 60, so    *)
(* that every term of the haversine formula is a multiple of 1/16.         *)
(***************************************************************************)
Abs(x) == IF x < 0 THEN -x ELSE x

\* 4 * sin(d/2)^2 for d a multiple of 60 degrees
Sin2Half4(d) ==
    LET m == (Abs(d) \div 60) % 6
    IN  CASE m = 0 -> 0
          [] m = 1 -> 1
          [] m = 2 -> 3
          [] m = 3 -> 4
          [] m = 4 -> 3
          [] OTHER -> 1

\* 2 * cos(lat) for lat a multiple of 60 degrees in -60..60
Cos2(lat) == IF lat = 0 THEN 2 ELSE 1

\* round(2 * 6371 * asin(sqrt(a16 / 16))), in km
ArcKm == <<0, 3220, 4605, 5706, 6672, 7559, 8398, 9209, 10008, 10806, 11617,
           12457, 13343, 14309, 15411, 16795, 20015>>

haversine(lat1, lon1, lat2, lon2) ==
    LET d_lat == lat2 - lat1
        d_lon == lon2 - lon1
        a16 == 4 * Sin2Half4(d_lat) + Cos2(lat1) * Cos2(lat2) * Sin2Half4(d_lon)
    IN  ArcKm[a16 + 1]

(***************************************************************************)
(* retrieve: a resource from the cache or from its URL.                    *)
(***************************************************************************)
\* A variant of retrieve that opens the cache file for writing before it
\* looks at the status code: a failed download leaves an empty file.
retrieve_truncating(files, cache_file, resource, refresh_cache) ==
    IF refresh_cache \/ files[cache_file] = None
    THEN IF ~resource.ok
         THEN [data |-> None, cache |-> [files EXCEPT ![cache_file] = Some(<<>>)],
               downloaded |-> TRUE]
         ELSE [data |-> Some(resource.content),
               cache |-> [files EXCEPT ![cache_file] = Some(resource.content)],
               downloaded |-> TRUE]
    ELSE [data |-> Some(files[cache_file][1]), cache |-> files, downloaded |-> FALSE]

\* A variant of retrieve that does not write the cache file.
retrieve_uncached(files, cache_file, resource, refresh_cache) ==
    IF refresh_cache \/ files[cache_file] = None
    THEN IF ~resource.ok
         THEN [data |-> None, cache |-> files, downloaded |-> TRUE]
         ELSE [data |-> Some(resource.content), cache |-> files, downloaded |-> TRUE]
    ELSE [data |-> Some(files[cache_file][1]), cache |-> files, downloaded |-> FALSE]

\* resource is what the URL answers now: [ok, content].
\* The result: data (None after a non-2xx answer), the cache afterwards,
\* and whether a download was made.
retrieve(files, cache_file, resource, refresh_cache) ==
    IF refresh_cache \/ files[cache_file] = None
    THEN IF ~resource.ok
         THEN [data |-> None, cache |-> files, downloaded |-> TRUE]
         ELSE [data |-> Some(resource.content),
               cache |-> [files EXCEPT ![cache_file] = Some(resource.content)],
               downloaded |-> TRUE]
    ELSE [data |-> Some(files[cache_file][1]), cache |-> files, downloaded |-> FALSE]

(***************************************************************************)
(* The IRCELINE API and the Metadata catalog (class attributes).           *)
(***************************************************************************)
phenomena_cache_file == <<"irceline_phenomena.json">>

stations_cache_file == <<"irceline_stations.json">>

time_series_cache_file == <<"irceline_time_series.json">>

\* What the phenomena endpoint serves.
API_PHENOMENA == << [id |-> <<"5">>, label |-> PM10_LONG],
                    [id |-> <<"6", "0">>, label |-> REL_HUMIDITY],
                    [id |-> <<"6">>, label |-> PM25_LONG],
                    [id |-> <<"4">>, label |-> TEMPERATURE] >>

\* What the stations endpoint serves; coordinates are [lon, lat].
API_STATIONS == << [properties_id |-> 11, properties_label |-> <<"4", "1", "R", "0", "0", "1">>,
                    geometry_coordinates |-> <<0, 0>>],
                   [properties_id |-> 12, properties_label |-> <<"4", "1", "N", "0", "4", "3">>,
                    geometry_coordinates |-> <<60, 60>>],
                   [properties_id |-> 13, properties_label |-> <<"4", "2", "R", "8", "0", "1">>,
                    geometry_coordinates |-> <<-60, 60>>],
                   [properties_id |-> 14, properties_label |-> <<"4", "4", "M", "7", "0", "5">>,
                    geometry_coordinates |-> <<0, 60>>] >>

\* A row of the timeseries endpoint: the label is
\* "<phenomenon> <number> - <station label>".
ApiTimeSeriesRow(id, phenomenon, station) ==
    [id |-> id,
     label |-> phenomenon \o <<" ">> \o <<"6">> \o id \o <<" ", "-", " ">> \o station.properties_label,
     station_properties_id |-> station.properties_id,
     station_properties_label |-> station.properties_label,
     station_geometry_coordinates |-> station.geometry_coordinates]

Api(endpoint, ok, rows) ==
    [ok |-> ok[endpoint],
     content |-> CASE endpoint = "phenomena" -> API_PHENOMENA
                   [] endpoint = "stations" -> API_STATIONS
                   [] OTHER -> rows]

\* The rows of a table, each with its position.
Enumerated(t) == AsSeq([i \in 1..Len(t) |-> [row |-> t[i], at |-> i]])

\* The rows of an enumerated table.
Rows(e) == AsSeq([i \in 1..Len(e) |-> e[i].row])

\* DataFrame.sort_index on the id index; rows of equal id keep their order.
sort_index_id(t) ==
    Rows(SortSeq(Enumerated(t),
                 LAMBDA a, b : a.row.id < b.row.id \/ (a.row.id = b.row.id /\ a.at < b.at)))

\* Metadata.get_phenomena: the outcome is the new attribute, or an error
get_phenomena(files, ok, rows, refresh_cache) ==
    LET r == retrieve(files, phenomena_cache_file, Api("phenomena", ok, rows), refresh_cache)
    IN  IF r.data = None
        THEN [err |-> "TypeError", cache |-> r.cache, value |-> None]
        ELSE [err |-> "", cache |-> r.cache,
              value |-> Some(sort_index_id(AsSeq([i \in 1..Len(r.data[1]) |->
                                               [id |-> AsInt(r.data[1][i].id),
                                                label |-> r.data[1][i].label]])))]

\* Metadata.get_stations
get_stations(files, ok, rows, refresh_cache) ==
    LET r == retrieve(files, stations_cache_file, Api("stations", ok, rows), refresh_cache)
    IN  IF r.data = None
        THEN [err |-> "AttributeError", cache |-> r.cache, value |-> None]
        ELSE [err |-> "", cache |-> r.cache,
              value |-> Some(AsSeq([i \in 1..Len(r.data[1]) |->
                                [id |-> r.data[1][i].properties_id,
                                 label |-> r.data[1][i].properties_label,
                                 lat |-> r.data[1][i].geometry_coordinates[2],
                                 lon |-> r.data[1][i].geometry_coordinates[1]]]))]

\* get_phenomenon_name
get_phenomenon_name(label) == RSplitHead(SplitHead(label, <<" ", "-", " ">>))

\* Metadata.get_time_series
get_time_series(files, ok, rows, refresh_cache) ==
    LET r == retrieve(files, time_series_cache_file, Api("timeseries", ok, rows), refresh_cache)
    IN  IF r.data = None
        THEN [err |-> "TypeError", cache |-> r.cache, value |-> None]
        ELSE [err |-> "", cache |-> r.cache,
              value |-> Some(AsSeq([i \in 1..Len(r.data[1]) |->
                                [id |-> AsInt(r.data[1][i].id),
                                 label |-> r.data[1][i].label,
                                 phenomenon |-> get_phenomenon_name(r.data[1][i].label),
                                 station_id |-> r.data[1][i].station_properties_id,
                                 station_label |-> r.data[1][i].station_properties_label,
                                 station_lat |-> r.data[1][i].station_geometry_coordinates[2],
                                 station_lon |-> r.data[1][i].station_geometry_coordinates[1]]]))]

\* Metadata.__init__ on the class attributes m, with the cache files and the
\* API as they are: the three retrievals in order, the first error ends it.
MetadataInit(m, files, ok, rows, refresh_cache) ==
    LET p == get_phenomena(files, ok, rows, refresh_cache)
        s == get_stations(p.cache, ok, rows, refresh_cache)
        t == get_time_series(s.cache, ok, rows, refresh_cache)
    IN  IF p.err # ""
        THEN [err |-> p.err, cache |-> p.cache, m |-> m,
              requests |-> <<phenomena_cache_file>>]
        ELSE IF s.err # ""
        THEN [err |-> s.err, cache |-> s.cache,
              m |-> [m EXCEPT !.phenomena = p.value],
              requests |-> <<phenomena_cache_file, stations_cache_file>>]
        ELSE IF t.err # ""
        THEN [err |-> t.err, cache |-> t.cache,
              m |-> [m EXCEPT !.phenomena = p.value, !.stations = s.value],
              requests |-> <<phenomena_cache_file, stations_cache_file, time_series_cache_file>>]
        ELSE [err |-> "", cache |-> t.cache,
              m |-> [phenomena |-> p.value, stations |-> s.value,
                     time_series |-> t.value, initialized |-> TRUE],
              requests |-> <<phenomena_cache_file, stations_cache_file, time_series_cache_file>>]

\* A variant of EnsureMetadata that loads the catalog again when the cache
\* is to be refreshed.
ensure_or_refresh(m, files, ok, rows, refresh_cache) ==
    IF m.initialized /\ ~refresh_cache
    THEN [err |-> "", cache |-> files, m |-> m, requests |-> <<>>]
    ELSE MetadataInit(m, files, ok, rows, refresh_cache)

\* "Metadata.initialized or Metadata(**retrieval_kwargs)"
EnsureMetadata(m, files, ok, rows, refresh_cache) ==
    IF m.initialized
    THEN [err |-> "", cache |-> files, m |-> m, requests |-> <<>>]
    ELSE MetadataInit(m, files, ok, rows, refresh_cache)

\* The steps of "Metadata.initialized or Metadata()" in a thread: the test
\* of initialized, then __init__: each get_ method builds its table and then
\* assigns it to the class attribute, and the assignment of initialized comes
\* last.  A thread between two steps may be overtaken by another.
Threads == {1, 2}

IdleThread == [pc |-> "idle", table |-> None]

LOAD_STEPS == {"get_phenomena", "get_stations", "get_time_series"}

ASSIGN_STEPS == {"set_phenomena", "set_stations", "set_time_series"}

\* A variant of step_after in which __init__ assigns initialized first.
initialized_first(pc) ==
    CASE pc = "check" -> "set_initialized"
      [] pc = "set_initialized" -> "get_phenomena"
      [] pc = "get_phenomena" -> "set_phenomena"
      [] pc = "set_phenomena" -> "get_stations"
      [] pc = "get_stations" -> "set_stations"
      [] pc = "set_stations" -> "get_time_series"
      [] pc = "get_time_series" -> "set_time_series"
      [] OTHER -> "idle"

\* The step that follows the step pc when pc does not raise.
step_after(pc) ==
    CASE pc = "check" -> "get_phenomena"
      [] pc = "get_phenomena" -> "set_phenomena"
      [] pc = "set_phenomena" -> "get_stations"
      [] pc = "get_stations" -> "set_stations"
      [] pc = "set_stations" -> "get_time_series"
      [] pc = "get_time_series" -> "set_time_series"
      [] pc = "set_time_series" -> "set_initialized"
      [] OTHER -> "idle"

\* The class attributes as one record.
Metadata == [phenomena |-> phenomena, stations |-> stations,
             time_series |-> time_series, initialized |-> initialized]

(***************************************************************************)
(* Metadata.query_time_series and find_nearest_sensors.                    *)
(***************************************************************************)
\* pd.concat(pieces)
RECURSIVE concat(_)
concat(pieces) == IF Len(pieces) = 0 THEN <<>> ELSE pieces[1] \o concat(Tail(pieces))

\* A variant of sort_values_distance that leaves the rows in their order.
unsorted_values(t) == t

\* DataFrame.sort_values("distance"); rows of equal distance keep their
\* order, as they do in the sort of tables of fewer than 16 rows.
sort_values_distance(t) ==
    Rows(SortSeq(Enumerated(t),
                 LAMBDA a, b : a.row.distance < b.row.distance
                               \/ (a.row.distance = b.row.distance /\ a.at < b.at)))

\* The rows of table t at the positions of keep among lo..hi, in their order.
RECURSIVE SelectRange(_, _, _, _)
SelectRange(t, keep, lo, hi) ==
    IF lo > hi THEN <<>>
    ELSE IF lo = hi THEN (IF lo \in keep THEN <<t[lo]>> ELSE <<>>)
    ELSE SelectRange(t, keep, lo, (lo + hi) \div 2)
         \o SelectRange(t, keep, (lo + hi) \div 2 + 1, hi)

\* The rows of table t at the positions of keep, in their order.
SelectRows(t, keep) == SelectRange(t, keep, 1, Len(t))

\* The row with the column "distance" added.
WithDistance(row, lat_nearest, lon_nearest) ==
    [id |-> row.id, label |-> row.label, phenomenon |-> row.phenomenon,
     station_id |-> row.station_id, station_label |-> row.station_label,
     station_lat |-> row.station_lat, station_lon |-> row.station_lon,
     distance |-> haversine(lat_nearest, lon_nearest, row.station_lat, row.station_lon)]

\* The stations of table st within radius km, nearest first, each with its
\* distance: the filter on the distance column and sort_values("distance").
NearStations(with_distance, radius) ==
    sort_values_distance(SelectSeq(with_distance, LAMBDA x : x.distance <= radius))

\* Metadata.search_proximity(lat, lon, radius) of the class-level catalog, on
\* the attribute stations st.
search_proximity(st, lat, lon, radius) ==
    IF st = None
    THEN [err |-> "AttributeError", rows |-> <<>>]
    ELSE [err |-> "",
          rows |-> NearStations(AsSeq([i \in 1..Len(st[1]) |->
                       [id |-> st[1][i].id, label |-> st[1][i].label,
                        lat |-> st[1][i].lat, lon |-> st[1][i].lon,
                        distance |-> haversine(lat, lon, st[1][i].lat, st[1][i].lon)]]),
                       radius)]

\* Metadata.search_proximity(lat, lon, radius) of the instance catalog: it
\* passes longitudes where haversine takes latitudes, and latitudes where it
\* takes longitudes.
instance_search_proximity(st, lat, lon, radius) ==
    IF st = None
    THEN [err |-> "AttributeError", rows |-> <<>>]
    ELSE [err |-> "",
          rows |-> NearStations(AsSeq([i \in 1..Len(st[1]) |->
                       [id |-> st[1][i].id, label |-> st[1][i].label,
                        lat |-> st[1][i].lat, lon |-> st[1][i].lon,
                        distance |-> haversine(lon, lat, st[1][i].lon, st[1][i].lat)]]),
                       radius)]

\* A variant of query_time_series that takes a coordinate of 0 for one that
\* is not given.
query_by_truthiness(ts, phenomenon, lat_nearest, lon_nearest) ==
    IF (lat_nearest \in {None, Some(0)}) # (lon_nearest \in {None, Some(0)})
    THEN [err |-> "ValueError", distance |-> FALSE, rows |-> <<>>]
    ELSE IF ts = None
    THEN [err |-> "TypeError", distance |-> FALSE, rows |-> <<>>]
    ELSE LET pat == Lower(phenomenon)
             matches == {i \in 1..Len(ts[1]) : Contains(Lower(ts[1][i].phenomenon), pat)}
             results == SelectRows(ts[1], matches)
         IN  IF lat_nearest \in {None, Some(0)}
             THEN [err |-> "", distance |-> FALSE, rows |-> results]
             ELSE IF Len(results) = 0
             THEN [err |-> "", distance |-> TRUE, rows |-> <<>>]
             ELSE [err |-> "", distance |-> TRUE,
                   rows |-> sort_values_distance(AsSeq(
                                [i \in 1..Len(results) |->
                                    WithDistance(results[i], lat_nearest[1], lon_nearest[1])]))]

\* Metadata.query_time_series(phenomenon, lat_nearest, lon_nearest) on the
\* attribute time_series ts; lat_nearest and lon_nearest are None or <<degrees>>.
\* The result: the exception raised or "", whether the table returned has a
\* distance column, and its rows.
query_time_series(ts, phenomenon, lat_nearest, lon_nearest) ==
    IF (lat_nearest = None) # (lon_nearest = None)
    THEN [err |-> "ValueError", distance |-> FALSE, rows |-> <<>>]
    ELSE IF ts = None
    THEN [err |-> "TypeError", distance |-> FALSE, rows |-> <<>>]
    ELSE LET pat == Lower(phenomenon)
             matches == {i \in 1..Len(ts[1]) : Contains(Lower(ts[1][i].phenomenon), pat)}
             results == SelectRows(ts[1], matches)
         IN  IF lat_nearest = None
             THEN [err |-> "", distance |-> FALSE, rows |-> results]
             ELSE IF Len(results) = 0
             THEN [err |-> "", distance |-> TRUE, rows |-> <<>>]
             ELSE [err |-> "", distance |-> TRUE,
                   rows |-> sort_values_distance(AsSeq(
                                [i \in 1..Len(results) |->
                                    WithDistance(results[i], lat_nearest[1], lon_nearest[1])]))]

\* The members of a group in the order the set is iterated: the order of a
\* Python set of strings depends on the hash seed of the process.
Iterate(group, backwards) ==
    IF backwards THEN AsSeq([i \in 1..Len(group) |-> group[Len(group) + 1 - i]]) ELSE group

\* A variant of equivalent_phenomena that gives a phenomenon of no group its
\* own name.
own_name_if_ungrouped(phenomenon, backwards) ==
    LET groups == concat(AsSeq([g \in 1..Len(EQUIVALENT_PHENOMENA) |->
                                  IF \E i \in 1..Len(EQUIVALENT_PHENOMENA[g]) :
                                         EQUIVALENT_PHENOMENA[g][i] = phenomenon
                                  THEN Iterate(EQUIVALENT_PHENOMENA[g], backwards)
                                  ELSE <<>>]))
    IN  IF Len(groups) = 0 THEN <<phenomenon>> ELSE groups

\* A variant of equivalent_phenomena that gives a phenomenon of a group its
\* own name only.
own_name_only(phenomenon, backwards) ==
    IF \E g \in 1..Len(EQUIVALENT_PHENOMENA) : \E i \in 1..Len(EQUIVALENT_PHENOMENA[g]) :
           EQUIVALENT_PHENOMENA[g][i] = phenomenon
    THEN <<phenomenon>>
    ELSE <<>>

\* chain.from_iterable(group for group in EQUIVALENT_PHENOMENA if phenomenon in group)
equivalent_phenomena(phenomenon, backwards) ==
    concat(AsSeq([g \in 1..Len(EQUIVALENT_PHENOMENA) |->
                     IF \E i \in 1..Len(EQUIVALENT_PHENOMENA[g]) :
                            EQUIVALENT_PHENOMENA[g][i] = phenomenon
                     THEN Iterate(EQUIVALENT_PHENOMENA[g], backwards)
                     ELSE <<>>]))

\* The matching pieces of the names, in order.
matching_pieces(ts, names, sensor) ==
    AsSeq([k \in 1..Len(names) |->
              query_time_series(ts, names[k], Some(sensor.lat), Some(sensor.lon)).rows])

\* results.reset_index().iloc[0].rename({"id": "time series id"})
first_result(results) ==
    [time_series_id |-> results[1].id, label |-> results[1].label,
     phenomenon |-> results[1].phenomenon, station_id |-> results[1].station_id,
     station_label |-> results[1].station_label, station_lat |-> results[1].station_lat,
     station_lon |-> results[1].station_lon, distance |-> results[1].distance]

\* The loop of find_nearest_sensors from the k-th phenomenon of the sensor on;
\* nearest is the dataframe so far, a sequence of columns [phenomenon, value].
RECURSIVE nearest_loop(_, _, _, _, _)
nearest_loop(ts, sensor, k, nearest, backwards) ==
    IF k > Len(sensor.phenomena) THEN [err |-> "", nearest |-> nearest]
    ELSE LET phenomenon == sensor.phenomena[k]
             names == equivalent_phenomena(phenomenon, backwards)
         IN  IF Len(names) = 0
             \* pd.concat of no pieces raises ValueError: continue
             THEN nearest_loop(ts, sensor, k + 1, nearest, backwards)
             ELSE LET results == sort_values_distance(
                                     concat(matching_pieces(ts, names, sensor)))
                  IN  IF Len(results) = 0
                      \* iloc[0] of an empty dataframe
                      THEN [err |-> "IndexError", nearest |-> <<>>]
                      ELSE nearest_loop(ts, sensor, k + 1,
                               Append(nearest, [phenomenon |-> phenomenon,
                                                value |-> first_result(results)]),
                               backwards)

\* find_nearest_sensors(sensor, **retrieval_kwargs)
find_nearest_sensors(m, files, ok, rows, sensor, refresh_cache, backwards) ==
    LET e == EnsureMetadata(m, files, ok, rows, refresh_cache)
        r == nearest_loop(e.m.time_series, sensor, 1, <<>>, backwards)
    IN  IF e.err # ""
        THEN [err |-> e.err, nearest |-> <<>>, m |-> e.m, cache |-> e.cache,
              requests |-> e.requests]
        ELSE [err |-> r.err, nearest |-> r.nearest, m |-> e.m, cache |-> e.cache,
              requests |-> e.requests]

(***************************************************************************)
(* luftdaten.info: the archive and the Sensor.                             *)
(***************************************************************************)
SDS011 == <<"S", "D", "S", "0", "1", "1">>

DHT22 == <<"D", "H", "T", "2", "2">>

BME280 == <<"B", "M", "E", "2", "8", "0">>

\* The sensor's id.
SENSOR_ID == 1

\* pd.np.nan among the values of a column
NaN == -1

HOURS_PER_DAY == 24

SECONDS_PER_HOUR == 3600

SECONDS_PER_DAY == HOURS_PER_DAY * SECONDS_PER_HOUR

\* The ideal number of data points per hour.
IDEAL_COUNT == 24

\* The width of the rolling windows of clean_data.
WINDOW == 5

\* Values below this one are dead measurements (1.0, in tenths).
DEAD_BELOW == 10

\* The values that indicate errors (999.9 and 1999.9, in tenths).
ERROR_VALUES == {9999, 19999}

\* ARCHIVE_FILENAME_PATTERN.format(date=..., sensor_type=..., sensor_id=...)
ArchiveFilename(date, stype, sid) == <<date, stype, "sensor", sid>>

\* pd.to_datetime of a timestamp of the file, <<day, hour, second>>, in seconds
to_datetime(t) == ((t[1] - 1) * HOURS_PER_DAY + t[2]) * SECONDS_PER_HOUR + t[3]

\* The hourly period of a timestamp.
Period(ts) == ts \div SECONDS_PER_HOUR

\* A variant of duplicated_keep_last that marks the later rows of a timestamp.
duplicated_keep_first(rows) ==
    LET index == AsSeq([i \in 1..Len(rows) |-> rows[i].timestamp])
    IN  {i \in 1..Len(rows) : \E j \in 1..(i - 1) : index[j] = index[i]}

\* index.duplicated(keep="last"): the positions that have a later row of the
\* same timestamp
duplicated_keep_last(rows) ==
    LET index == AsSeq([i \in 1..Len(rows) |-> rows[i].timestamp])
    IN  {i \in 1..Len(rows) : \E j \in (i + 1)..Len(rows) : index[j] = index[i]}

\* DataFrame.sort_index on the timestamps; rows of equal timestamp keep
\* their order.
sort_index(rows) ==
    Rows(SortSeq(Enumerated(rows),
                 LAMBDA a, b : a.row.timestamp < b.row.timestamp
                               \/ (a.row.timestamp = b.row.timestamp /\ a.at < b.at)))

\* The largest element of a non-empty set of numbers.
Max(S) == CHOOSE x \in S : \A y \in S : y <= x

Min(S) == CHOOSE x \in S : \A y \in S : x <= y

\* A variant of replace_errors that knows one of the two error values.
replace_999_only(v) == IF v = 9999 THEN NaN ELSE v

\* replace([999.9, 1999.9], nan) on one value
replace_errors(v) == IF v \in ERROR_VALUES THEN NaN ELSE v

\* Whether the centered window of WINDOW rows at position i lies in 1..n:
\* with fewer observations the rolling result is NaN.
WindowComplete(i, n) == i - (WINDOW - 1) \div 2 >= 1 /\ i + (WINDOW - 1) \div 2 <= n

WindowAt(i) == (i - (WINDOW - 1) \div 2)..(i + (WINDOW - 1) \div 2)

\* column.rolling(5, center=True).max() of a column of numbers
rolling_max(col) ==
    AsSeq([i \in 1..Len(col) |->
             IF WindowComplete(i, Len(col)) /\ \A j \in WindowAt(i) : col[j] # NaN
             THEN Max({col[j] : j \in WindowAt(i)})
             ELSE NaN])

\* Middle items in sequences of at least 5 dead measurements.
dead_5_middle(col) ==
    LET highest == rolling_max(col)
    IN  AsSeq([i \in 1..Len(col) |-> highest[i] # NaN /\ highest[i] < DEAD_BELOW])

\* dead_5_middle.rolling(5, center=True).max() == 1
dead_5_consecutive(col) ==
    LET middle == dead_5_middle(col)
    IN  AsSeq([i \in 1..Len(col) |->
                 WindowComplete(i, Len(col)) /\ \E j \in WindowAt(i) : middle[j]])

\* A variant of clean_column that looks for dead measurements first and then
\* puts 0 in the place of the error values.
clean_errors_to_zero(col) ==
    LET dead == dead_5_consecutive(col)
    IN  AsSeq([i \in 1..Len(col) |->
                 IF dead[i] THEN NaN ELSE IF col[i] \in ERROR_VALUES THEN 0 ELSE col[i]])

\* A variant of clean_column that makes every value below 1.0 missing,
\* whatever its neighbours are.
clean_every_dead_value(col) ==
    AsSeq([i \in 1..Len(col) |->
             IF replace_errors(col[i]) # NaN /\ replace_errors(col[i]) < DEAD_BELOW
             THEN NaN ELSE replace_errors(col[i])])

\* clean_data on one column
clean_column(col) ==
    LET replaced == AsSeq([i \in 1..Len(col) |-> replace_errors(col[i])])
        dead == dead_5_consecutive(replaced)
    IN  AsSeq([i \in 1..Len(col) |-> IF dead[i] THEN NaN ELSE replaced[i]])

\* The column c of a table, as a sequence.
Column(t, c) == AsSeq([i \in 1..Len(t.rows) |-> t.rows[i].values[c]])

\* A variant of clean_data that makes missing, in every column, the rows that
\* the cleaning of any column makes missing.
clean_whole_rows(t) ==
    LET cleaned == AsSeq([c \in 1..Len(t.columns) |-> clean_column(Column(t, c))])
    IN  [columns |-> t.columns,
         rows |-> AsSeq([i \in 1..Len(t.rows) |->
                     [timestamp |-> t.rows[i].timestamp,
                      values |-> AsSeq([c \in 1..Len(t.columns) |->
                                     IF \E d \in 1..Len(t.columns) : cleaned[d][i] = NaN
                                     THEN NaN ELSE cleaned[c][i]])]])]

\* Sensor.clean_data on the dataframe t
clean_data(t) ==
    LET cleaned == AsSeq([c \in 1..Len(t.columns) |-> clean_column(Column(t, c))])
    IN  [columns |-> t.columns,
         rows |-> AsSeq([i \in 1..Len(t.rows) |->
                     [timestamp |-> t.rows[i].timestamp,
                      values |-> AsSeq([c \in 1..Len(t.columns) |-> cleaned[c][i]])]])]

\* A variant of ResamplePeriods that gives the periods that hold rows only.
occupied_periods(t) ==
    LET n == Len(t.rows)
    IN  AsSeq([k \in 1..Cardinality({Period(t.rows[i].timestamp) : i \in 1..n}) |->
                 CHOOSE p \in {Period(t.rows[i].timestamp) : i \in 1..n} :
                     Cardinality({q \in {Period(t.rows[i].timestamp) : i \in 1..n} : q <= p}) = k])

\* The hourly periods of resample("h", kind="period"): from the period of
\* the first timestamp to the period of the last.
ResamplePeriods(t) ==
    IF Len(t.rows) = 0 THEN <<>>
    ELSE LET first == Min({Period(t.rows[i].timestamp) : i \in 1..Len(t.rows)})
             last == Max({Period(t.rows[i].timestamp) : i \in 1..Len(t.rows)})
         IN  AsSeq([k \in 1..(last - first + 1) |-> first + k - 1])

\* resample("h", kind="period"): the periods and, for each of them, the
\* positions of the rows that fall in it.
resample(t) ==
    LET periods == ResamplePeriods(t)
        of == AsSeq([i \in 1..Len(t.rows) |-> Period(t.rows[i].timestamp)])
        occupied == {of[i] : i \in 1..Len(of)}
    IN  [periods |-> periods,
         bins |-> AsSeq([k \in 1..Len(periods) |->
                           IF periods[k] \in occupied
                           THEN {i \in 1..Len(of) : of[i] = periods[k]}
                           ELSE {}])]

\* The positions of a bin whose value in column c is present.
Present(t, bin, c) == {i \in bin : t.rows[i].values[c] # NaN}

\* The sum of the values of column c at the positions of S.
RECURSIVE SumAt(_, _, _)
SumAt(t, c, S) ==
    IF S = {} THEN 0
    ELSE LET i == CHOOSE j \in S : TRUE
         IN  t.rows[i].values[c] + SumAt(t, c, S \ {i})

\* Rational numbers <<numerator, denominator>>; <<0, 0>> is NaN.
NaNRat == <<0, 0>>

RatGreater(a, b) == a # NaNRat /\ b # NaNRat /\ a[1] * b[2] > b[1] * a[2]

\* min(1, x / 24)
coverage(x) == IF RatGreater(<<x, IDEAL_COUNT>>, <<1, 1>>) THEN <<1, 1>> ELSE <<x, IDEAL_COUNT>>

\* Sensor.calculate_hourly_coverage on the measurements t
calculate_hourly_coverage(t) ==
    LET data_resampler == resample(t)
    IN  [columns |-> t.columns,
         rows |-> AsSeq([k \in 1..Len(data_resampler.periods) |->
                     [period |-> data_resampler.periods[k],
                      values |-> AsSeq([c \in 1..Len(t.columns) |->
                                     coverage(Cardinality(
                                         Present(t, data_resampler.bins[k], c)))])]])]

\* resampler.mean() of one period and column
mean(t, bin, c) ==
    LET present == Present(t, bin, c)
    IN  IF present = {} THEN NaNRat ELSE <<SumAt(t, c, present), Cardinality(present)>>

\* A variant of sufficient_coverage that accepts a coverage equal to the minimum.
coverage_at_least(cov, min_data_coverage) ==
    cov # NaNRat /\ min_data_coverage # NaNRat
    /\ cov[1] * min_data_coverage[2] >= min_data_coverage[1] * cov[2]

\* sufficient_coverage = self.hourly_coverage > min_data_coverage
sufficient_coverage(cov, min_data_coverage) == RatGreater(cov, min_data_coverage)

\* Sensor.calculate_hourly_means on the measurements t and the coverage hc
calculate_hourly_means(t, hc, min_data_coverage) ==
    LET resampler == resample(t)
    IN  [columns |-> t.columns,
         rows |-> AsSeq([k \in 1..Len(resampler.periods) |->
                     [period |-> resampler.periods[k],
                      values |-> AsSeq([c \in 1..Len(t.columns) |->
                                     IF sufficient_coverage(hc.rows[k].values[c], min_data_coverage)
                                     THEN mean(t, resampler.bins[k], c)
                                     ELSE NaNRat])]])]

\* A variant of sum_min_count that asks for more than min_count values.
sum_above_min_count(t, bin, c, min_count) ==
    IF Cardinality(Present(t, bin, c)) <= min_count
    THEN NaN
    ELSE SumAt(t, c, Present(t, bin, c))

\* resampler.sum(min_count=min_count) of one period and column: the sum of
\* the present values, NaN with fewer than min_count of them.
sum_min_count(t, bin, c, min_count) ==
    IF Cardinality(Present(t, bin, c)) < min_count
    THEN NaN
    ELSE SumAt(t, c, Present(t, bin, c))

\* The quotient of a sum and a count of the resampler, as a rational: NaN
\* for a sum that is NaN, and for 0 / 0.
sum_by_count(s, n) == IF s = NaN \/ n = 0 THEN NaNRat ELSE <<s, n>>

\* BaseSensor.get_hourly_means(min_count) on the measurements t
get_hourly_means(t, min_count) ==
    LET resampler == resample(t)
    IN  [columns |-> t.columns,
         rows |-> AsSeq([k \in 1..Len(resampler.periods) |->
                     [period |-> resampler.periods[k],
                      values |-> AsSeq([c \in 1..Len(t.columns) |->
                                     sum_by_count(
                                         sum_min_count(t, resampler.bins[k], c, min_count),
                                         Cardinality(Present(t, resampler.bins[k], c)))])]])]

\* The default of min_count.
MIN_COUNT == 10

\* The default of min_data_coverage, 0.9.
MIN_DATA_COVERAGE == <<9, 10>>

\* The columns get_data gives the measurements of a sensor type.
DataColumns(stype) ==
    IF stype = SDS011 THEN <<"pm10", "pm2.5">> ELSE <<"temperature", "humidity">>

\* The rows of a daily file, reformatted: timestamps parsed, columns selected.
ParseDaily(content) ==
    AsSeq([i \in 1..Len(content) |->
             [timestamp |-> to_datetime(content[i].timestamp), values |-> content[i].values]])

\* A variant of daily_loop that ends at the first day without a resource.
RECURSIVE stop_at_missing_day(_, _, _, _, _, _, _, _)
stop_at_missing_day(stype, files, arch, date, end_date, refresh_cache, pieces, reqs) ==
    IF date > end_date
    THEN [err |-> "", cache |-> files, pieces |-> pieces, requests |-> reqs]
    ELSE LET filename == ArchiveFilename(date, Lower(stype), SENSOR_ID)
             r == retrieve(files, filename, arch[date], refresh_cache)
         IN  IF r.data = None
             THEN [err |-> "", cache |-> r.cache, pieces |-> pieces,
                   requests |-> Append(reqs, filename)]
             ELSE IF stype # SDS011 /\ stype # DHT22
             THEN [err |-> "NotImplementedError", cache |-> r.cache, pieces |-> pieces,
                   requests |-> Append(reqs, filename)]
             ELSE stop_at_missing_day(stype, r.cache, arch, date + 1, end_date, refresh_cache,
                                      Append(pieces, ParseDaily(r.data[1])),
                                      Append(reqs, filename))

\* The loop of get_data over the dates from date to end_date: the pieces of
\* daily_data so far are in pieces.
RECURSIVE daily_loop(_, _, _, _, _, _, _, _)
daily_loop(stype, files, arch, date, end_date, refresh_cache, pieces, reqs) ==
    IF date > end_date
    THEN [err |-> "", cache |-> files, pieces |-> pieces, requests |-> reqs]
    ELSE LET filename == ArchiveFilename(date, Lower(stype), SENSOR_ID)
             r == retrieve(files, filename, arch[date], refresh_cache)
         IN  IF r.data = None
             THEN daily_loop(stype, r.cache, arch, date + 1, end_date, refresh_cache,
                             pieces, Append(reqs, filename))
             ELSE IF stype # SDS011 /\ stype # DHT22
             THEN [err |-> "NotImplementedError", cache |-> r.cache, pieces |-> pieces,
                   requests |-> Append(reqs, filename)]
             ELSE daily_loop(stype, r.cache, arch, date + 1, end_date, refresh_cache,
                             Append(pieces, ParseDaily(r.data[1])), Append(reqs, filename))

\* Sensor.get_data(start_date, end_date, **retrieval_kwargs) on the sensor
\* self = [sensor_type, measurements, hourly_coverage, hourly_means]
get_data(self, files, arch, start_date, end_date, refresh_cache) ==
    LET d == daily_loop(self.sensor_type, files, arch, start_date, end_date,
                        refresh_cache, <<>>, <<>>)
        all == concat(d.pieces)
        kept == SelectRows(all, (1..Len(all)) \ duplicated_keep_last(all))
        cleaned == clean_data([columns |-> DataColumns(self.sensor_type),
                               rows |-> sort_index(kept)])
        hc == calculate_hourly_coverage(cleaned)
    IN  IF d.err # ""
        THEN [err |-> d.err, cache |-> d.cache, requests |-> d.requests, self |-> self]
        ELSE IF Len(d.pieces) = 0
        THEN [err |-> "", cache |-> d.cache, requests |-> d.requests,
              self |-> [self EXCEPT !.measurements = None, !.hourly_coverage = None,
                                    !.hourly_means = None]]
        ELSE [err |-> "", cache |-> d.cache, requests |-> d.requests,
              self |-> [self EXCEPT !.measurements = Some(cleaned),
                                    !.hourly_coverage = Some(hc),
                                    !.hourly_means =
                                        Some(calculate_hourly_means(cleaned, hc, MIN_DATA_COVERAGE))]]

\* The luftdaten sensor as one record.
Sensor == [sensor_type |-> sensor_type, measurements |-> measurements,
           hourly_coverage |-> hourly_coverage, hourly_means |-> hourly_means]

(***************************************************************************)
(* The irceline Sensor and its measurement fetch.  Dates are day numbers,  *)
(* day 1 beginning at instant 0; instants are seconds UTC.                 *)
(***************************************************************************)
\* pd.to_datetime(date, format="%Y-%m-%d", utc=True).normalize()
normalize(date) == (date - 1) * SECONDS_PER_DAY

\* strftime("%Y-%m-%d") of an instant
strftime_date(t) == (t \div SECONDS_PER_DAY) + 1

\* Europe/Brussels: one hour ahead of UTC until summer time begins at
\* 01:00 UTC of day 2, two hours from then on.
SUMMER_TIME_START == SECONDS_PER_DAY + SECONDS_PER_HOUR

utcoffset(t) == IF t < SUMMER_TIME_START THEN SECONDS_PER_HOUR ELSE 2 * SECONDS_PER_HOUR

\* tz_convert("Europe/Brussels").strftime("%Y-%m-%dT%H"): the local hour
strftime_local_hour(t) == (t + utcoffset(t)) \div SECONDS_PER_HOUR

\* tz_convert("Europe/Brussels").strftime("%Y-%m-%dT%H:%M:%S"): the local second
strftime_local_second(t) == t + utcoffset(t)

\* The instant of a local time, as the API reads the times of a timespan.
local_to_utc(w) ==
    IF w - SECONDS_PER_HOUR < SUMMER_TIME_START THEN w - SECONDS_PER_HOUR
    ELSE w - 2 * SECONDS_PER_HOUR

\* API_ENDPOINTS["data pattern"].format(time_series_id, start, end)
DataUrl(time_series_id, start, end) ==
    [time_series_id |-> time_series_id, start |-> start, end |-> end]

\* "irceline_{time_series_id}_{start_date}_{end_date}.json"
DataFilename(time_series_id, start_date, end_date) ==
    <<"irceline", time_series_id, start_date, end_date, ".json">>

\* The hours of a day the data endpoint has a value for.
DATA_HOURS == {0, 12, 23}

\* What the data endpoint answers for a URL: the values whose hour begins
\* within the timespan, as [timestamp in ms, value].
ApiData(api, url) ==
    LET first == local_to_utc(url.start * SECONDS_PER_HOUR)
        last == local_to_utc(url.end)
        hours == {(d - 1) * HOURS_PER_DAY + h : d \in api.days, h \in DATA_HOURS}
        served == {h \in hours : first <= h * SECONDS_PER_HOUR /\ h * SECONDS_PER_HOUR <= last}
    IN  [ok |-> api.ok,
         content |-> AsSeq([k \in 1..Cardinality(served) |->
                              LET h == CHOOSE x \in served :
                                           Cardinality({y \in served : y < x}) = k - 1
                              IN  [timestamp |-> h * SECONDS_PER_HOUR * 1000,
                                   value |-> 10 + h]])]

\* pd.to_datetime(timestamp, unit="ms", utc=True).dt.to_period(freq="h")
to_period_h(ms) == (ms \div 1000) \div SECONDS_PER_HOUR

\* Sensor.__init__(timeseries_id) of irceline: "Metadata.initialized or
\* Metadata()", then the row of the time series.
IrcelineSensorInit(m, files, ok, rows, timeseries_id) ==
    LET e == EnsureMetadata(m, files, ok, rows, FALSE)
        found == IF e.err = "" THEN {i \in 1..Len(e.m.time_series[1]) :
                                       e.m.time_series[1][i].id = timeseries_id}
                 ELSE {}
    IN  IF e.err # ""
        THEN [err |-> e.err, cache |-> e.cache, m |-> e.m, requests |-> e.requests,
              self |-> None]
        ELSE IF found = {}
        THEN [err |-> "KeyError", cache |-> e.cache, m |-> e.m, requests |-> e.requests,
              self |-> None]
        ELSE LET row == e.m.time_series[1][CHOOSE i \in found : TRUE]
             IN  [err |-> "", cache |-> e.cache, m |-> e.m, requests |-> e.requests,
                  self |-> Some([sensor_id |-> timeseries_id,
                                 metadata |-> row,
                                 label |-> <<"a", "t", " ">> \o row.station_label,
                                 lat |-> row.station_lat,
                                 lon |-> row.station_lon,
                                 phenomena |-> <<row.phenomenon>>,
                                 measurements |-> None])]

\* Sensor.get_measurements(start_date, end_date, **retrieval_kwargs) of
\* irceline, at the instant now
get_measurements(self, files, api, now, start_date, end_date, refresh_cache) ==
    LET query_start_date == normalize(start_date)
        truncated == normalize(end_date) + SECONDS_PER_DAY > now
        yesterday == now - SECONDS_PER_DAY
        end_date_used == IF truncated THEN strftime_date(yesterday) ELSE end_date
        query_end_date == IF truncated THEN now ELSE normalize(end_date) + SECONDS_PER_DAY
        warnings == IF truncated THEN <<"Resetting end_date to yesterday">> ELSE <<>>
        url == DataUrl(self.sensor_id, strftime_local_hour(query_start_date),
                       strftime_local_second(query_end_date - 1))
        filename == DataFilename(self.sensor_id, start_date, end_date_used)
        r == retrieve(files, filename, ApiData(api, url), refresh_cache)
    IN  IF query_start_date > query_end_date
        THEN [err |-> "ValueError", warnings |-> warnings, cache |-> files,
              requests |-> <<>>, urls |-> <<>>, self |-> self]
        ELSE IF r.data = None
        THEN [err |-> "AttributeError", warnings |-> warnings, cache |-> r.cache,
              requests |-> <<filename>>, urls |-> <<url>>, self |-> self]
        ELSE IF Len(r.data[1]) = 0
        THEN [err |-> "", warnings |-> warnings, cache |-> r.cache,
              requests |-> <<filename>>, urls |-> <<url>>, self |-> self]
        ELSE [err |-> "", warnings |-> warnings, cache |-> r.cache,
              requests |-> <<filename>>, urls |-> <<url>>,
              self |-> [self EXCEPT !.measurements =
                           Some([columns |-> self.phenomena,
                                 rows |-> AsSeq([i \in 1..Len(r.data[1]) |->
                                             [period |-> to_period_h(r.data[1][i].timestamp),
                                              value |-> r.data[1][i].value]])])]]

\* get_data(time_series, start_date, end_date, **retrieval_kwargs) of
\* resources/irceline.py, at the instant now
irceline_get_data(files, api, now, time_series_id, start_date, end_date, refresh_cache) ==
    LET query_start_date == normalize(start_date)
        yesterday == now - SECONDS_PER_DAY
        truncated == normalize(end_date) > yesterday
        query_end_date == IF truncated THEN yesterday ELSE normalize(end_date)
        end_date_used == IF truncated THEN strftime_date(query_end_date) ELSE end_date
        url == DataUrl(time_series_id, strftime_local_hour(query_start_date),
                       strftime_local_second(query_end_date - 1))
        filename == DataFilename(time_series_id, start_date, end_date_used)
        r == retrieve(files, filename, ApiData(api, url), refresh_cache)
    IN  IF query_start_date > query_end_date
        THEN [err |-> "ValueError", cache |-> files, requests |-> <<>>, urls |-> <<>>,
              data |-> None]
        ELSE IF r.data = None
        THEN [err |-> "AttributeError", cache |-> r.cache, requests |-> <<filename>>,
              urls |-> <<url>>, data |-> None]
        ELSE IF Len(r.data[1]) = 0
        THEN [err |-> "KeyError", cache |-> r.cache, requests |-> <<filename>>,
              urls |-> <<url>>, data |-> None]
        ELSE [err |-> "", cache |-> r.cache, requests |-> <<filename>>, urls |-> <<url>>,
              data |-> Some(AsSeq([i \in 1..Len(r.data[1]) |->
                                     [period |-> to_period_h(r.data[1][i].timestamp),
                                      value |-> r.data[1][i].value]]))]

(***************************************************************************)
(* luftdaten.info: Sensor.update.  A response is a JSON list of objects;   *)
(* an object is a record whose fields are the flattened keys.              *)
(***************************************************************************)
\* os.path.basename(self.url.rstrip("/")) + ".json"
SensorFilename(sensor_id) == <<sensor_id, ".json">>

P1 == <<"P", "1">>

P2 == <<"P", "2">>

\* read_json: json_normalize(json.load(file)), a frame with the keys of the
\* objects as columns
read_json(content) ==
    [columns |-> UNION {DOMAIN content[i] : i \in 1..Len(content)}, rows |-> content]

\* The columns update drops to get the metadata.
DROPPED_COLUMNS == {"sensordatavalues", "timestamp"}

\* The exceptions DataFrame.drop raises for labels that are not columns:
\* ValueError in pandas 0.22, KeyError from pandas 0.23.
DROP_ERRORS == {"ValueError", "KeyError"}

\* replace({"P1": "pm10", "P2": "pm2.5"}) on one value type
replace_value_type(t) ==
    IF t = P1 THEN PM10_SHORT ELSE IF t = P2 THEN PM25_SHORT ELSE t

\* dict(current): json_normalize(current), the value types replaced, indexed
\* by value type, the error values replaced by NaN
current_values_of(sensordatavalues) ==
    LET n == Len(sensordatavalues)
        names == {replace_value_type(sensordatavalues[i].value_type) : i \in 1..n}
        last(name) == Max({i \in 1..n :
                              replace_value_type(sensordatavalues[i].value_type) = name})
    IN  [name \in names |-> replace_errors(sensordatavalues[last(name)].value)]

\* Sensor.update on self = [sensor_id, metadata, sensor_type, current_values],
\* with the exception drop_error that DataFrame.drop raises.
update(self, files, api, refresh_cache, drop_error) ==
    LET r == retrieve(files, SensorFilename(self.sensor_id), api, refresh_cache)
    IN  IF r.data = None
        THEN \* None.drop
             [err |-> "AttributeError", cache |-> r.cache, self |-> self]
        ELSE LET parsed == read_json(r.data[1])
             IN  IF ~(DROPPED_COLUMNS \subseteq parsed.columns)
                 THEN \* except ValueError: raise ValueError("Sensor does not
                      \* appear to be online"); another exception passes
                      [err |-> drop_error, cache |-> r.cache, self |-> self]
                 ELSE LET row == parsed.rows[1]
                          md == [c \in (DOMAIN row) \ DROPPED_COLUMNS |-> row[c]]
                          with_metadata == [self EXCEPT !.metadata = Some(md)]
                      IN  IF "sensor_sensor_type_name" \notin DOMAIN md
                          THEN [err |-> "KeyError", cache |-> r.cache,
                                self |-> with_metadata]
                          ELSE [err |-> "", cache |-> r.cache,
                                self |-> [with_metadata EXCEPT
                                    !.sensor_type = md.sensor_sensor_type_name,
                                    !.current_values = Some(current_values_of(
                                        parsed.rows[Len(parsed.rows)].sensordatavalues))]]

\* The metadata attributes of the luftdaten sensor as one record.
SensorMetadata == [sensor_id |-> SENSOR_ID, metadata |-> metadata,
                   sensor_type |-> sensor_type, current_values |-> current_values]

(***************************************************************************)
(* The InfluencAir registry: civiclabs.get_sensors, influencair.Metadata   *)
(* and Sensor.get_influencair_metadata.  The sheet is a sequence of lines  *)
(* of cells: a title line, the header line and the rows.  Python values    *)
(* carry their type: [str |-> s], [int |-> n], and [nan |-> TRUE] for the  *)
(* missing value.                                                          *)
(***************************************************************************)
PyStr(s) == [str |-> s]

PyInt(n) == [int |-> n]

PyNaN == [nan |-> TRUE]

SENSOR_INFO_CACHE_FILE == <<"civic_labs_sensors.csv">>

\* The columns civiclabs.get_sensors selects.
CIVICLABS_COLUMNS == <<"Chip ID", "PM Sensor ID", "Hum/Temp Sensor ID", "Address">>

\* The columns influencair.Metadata selects.
INFLUENCAIR_COLUMNS == <<"Chip ID", "PM Sensor ID", "Hum/Temp Sensor ID", "Label",
                         "Address", "Floor", "Side (Street/Garden)">>

\* The message of the KeyError raised for a sheet without the columns.
COLUMNS_MESSAGE(project) ==
    [template |-> "Could not get columns. Check if the structure or labels of the {} sensor Google Sheet have changed.",
     args |-> <<project>>]

\* The message of the ValueError raised for a sensor that is not listed.
NOT_LISTED_MESSAGE(sensor_id) ==
    [template |-> "Sensor ID {} is not listed in InfluencAir metadata sheet",
     args |-> <<sensor_id>>]

\* The elements of a sequence.
Elements(seq) == {seq[i] : i \in 1..Len(seq)}

\* pd.read_csv(buffer, header=1, dtype="object"): the second line names the
\* columns, the lines after it are the rows, every cell a string or NaN.
read_csv(lines) ==
    LET header == lines[2]
        position(c) == CHOOSE k \in 1..Len(header) : header[k] = c
    IN  [columns |-> header,
         rows |-> AsSeq([i \in 1..(Len(lines) - 2) |->
                            [c \in Elements(header) |-> lines[i + 2][position(c)]]])]

\* A variant of select_columns that fills the columns the frame lacks with NaN.
reindex_columns(frame, columns) ==
    [err |-> "",
     value |-> [columns |-> columns,
                rows |-> AsSeq([i \in 1..Len(frame.rows) |->
                                   [c \in Elements(columns) |->
                                       IF c \in Elements(frame.columns)
                                       THEN frame.rows[i][c] ELSE PyNaN]])]]

\* frame[[columns]]: KeyError when the frame lacks one of them
select_columns(frame, columns) ==
    IF ~(Elements(columns) \subseteq Elements(frame.columns))
    THEN [err |-> "KeyError", value |-> None]
    ELSE [err |-> "",
          value |-> [columns |-> columns,
                     rows |-> AsSeq([i \in 1..Len(frame.rows) |->
                                        [c \in Elements(columns) |-> frame.rows[i][c]]])]]

\* rename(columns={"Side (Street/Garden)": "Side"})
rename_side(frame) ==
    LET renamed(c) == IF c = "Side (Street/Garden)" THEN "Side" ELSE c
    IN  [columns |-> AsSeq([k \in 1..Len(frame.columns) |-> renamed(frame.columns[k])]),
         rows |-> AsSeq([i \in 1..Len(frame.rows) |->
                            [c \in {renamed(d) : d \in Elements(frame.columns)} |->
                                IF c = "Side" THEN frame.rows[i]["Side (Street/Garden)"]
                                ELSE frame.rows[i][c]]])]

\* civiclabs.get_sensors(**retrieval_kwargs)
get_sensors(files, resource, refresh_cache) ==
    LET r == retrieve(files, SENSOR_INFO_CACHE_FILE, resource, refresh_cache)
    IN  IF r.data = None
        THEN \* None[[...]]
             [err |-> "TypeError", message |-> None, cache |-> r.cache, sensors |-> None]
        ELSE LET selected == select_columns(read_csv(r.data[1]), CIVICLABS_COLUMNS)
             IN  IF selected.err # ""
                 THEN [err |-> "KeyError", message |-> Some(COLUMNS_MESSAGE("Civic Labs")),
                       cache |-> r.cache, sensors |-> None]
                 ELSE [err |-> "", message |-> None, cache |-> r.cache,
                       sensors |-> Some(selected.value)]

\* influencair.Metadata.__init__ on the class attributes m = [sensors, initialized]
InfluencairMetadataInit(m, files, resource, refresh_cache) ==
    LET r == retrieve(files, SENSOR_INFO_CACHE_FILE, resource, refresh_cache)
    IN  IF r.data = None
        THEN [err |-> "TypeError", message |-> None, cache |-> r.cache, m |-> m]
        ELSE LET selected == select_columns(read_csv(r.data[1]), INFLUENCAIR_COLUMNS)
             IN  IF selected.err # ""
                 THEN [err |-> "KeyError", message |-> Some(COLUMNS_MESSAGE("InfluencAir")),
                       cache |-> r.cache, m |-> m]
                 ELSE [err |-> "", message |-> None, cache |-> r.cache,
                       m |-> [sensors |-> Some(rename_side(selected.value)),
                              initialized |-> TRUE]]

\* The columns get_influencair_metadata drops from the matching row.
ID_COLUMNS == {"PM Sensor ID", "Hum/Temp Sensor ID"}

\* A variant of first_match that takes the last of the matching rows.
last_match(rows) == Max(rows)

\* Metadata.sensors[id_match_rows].iloc[0]
first_match(rows) == Min(rows)

\* Sensor.get_influencair_metadata on self = [sensor_id, influencair_metadata,
\* chip_id, label]
get_influencair_metadata(self, m, files, resource, refresh_cache) ==
    LET e == IF m.initialized
             THEN [err |-> "", message |-> None, cache |-> files, m |-> m]
             ELSE InfluencairMetadataInit(m, files, resource, refresh_cache)
    IN  IF e.err # ""
        THEN [err |-> e.err, message |-> e.message, cache |-> e.cache, m |-> e.m,
              self |-> self]
        ELSE LET sensors == e.m.sensors[1]
                 id_match_rows == {i \in 1..Len(sensors.rows) :
                                      \/ sensors.rows[i]["PM Sensor ID"] = self.sensor_id
                                      \/ sensors.rows[i]["Hum/Temp Sensor ID"] = self.sensor_id}
             IN  IF id_match_rows = {}
                 THEN [err |-> "ValueError",
                       message |-> Some(NOT_LISTED_MESSAGE(self.sensor_id)),
                       cache |-> e.cache, m |-> e.m, self |-> self]
                 ELSE LET row == sensors.rows[first_match(id_match_rows)]
                          influencair_metadata ==
                              [c \in (DOMAIN row) \ ID_COLUMNS |-> row[c]]
                      IN  [err |-> "", message |-> None, cache |-> e.cache, m |-> e.m,
                           self |-> [self EXCEPT
                               !.influencair_metadata = Some(influencair_metadata),
                               !.chip_id = Some(influencair_metadata["Chip ID"]),
                               !.label = IF influencair_metadata["Label"] # PyNaN
                                         THEN influencair_metadata["Label"] ELSE @]]

(***************************************************************************)
(* airqdata.py: compare_sensor_and_station and find_nearest_pm_stations.   *)
(* A luftdaten sensor object is a record of its attributes; the argument   *)
(* sensor_obj is None or Some(object), sensor_id is None or Some(id).      *)
(***************************************************************************)
\* bool(sensor_id): None and 0 are false.
bool_of_id(sensor_id) == IF sensor_id = None \/ sensor_id = Some(0) THEN 0 ELSE 1

\* bool(sensor_obj): None is false, an object is true.
bool_of_object(sensor_obj) == IF sensor_obj = None THEN 0 ELSE 1

\* haversine of resources/helpers.py: the longitudes come first.
helpers_haversine(lon1, lat1, lon2, lat2) ==
    LET d_lon == lon2 - lon1
        d_lat == lat2 - lat1
        a16 == 4 * Sin2Half4(d_lat) + Cos2(lat1) * Cos2(lat2) * Sin2Half4(d_lon)
    IN  ArcKm[a16 + 1]

\* The cache file of the sensor URL formatted with sensor_id None.
NONE_SENSOR_FILE == <<"None.json">>

\* The attributes of a luftdaten Sensor before update.
BlankSensor(sensor_id) ==
    [sensor_id |-> sensor_id, metadata |-> None, sensor_type |-> None,
     current_values |-> None, measurements |-> None, hourly_coverage |-> None,
     hourly_means |-> None]

\* luftdaten.Sensor(sensor_id, **retrieval_kwargs): the new object, or the
\* error of its update.  No sensor answers at the URL of sensor_id None.
new_sensor(sensor_id, files, api, refresh_cache, drop_error) ==
    IF sensor_id = None
    THEN LET r == retrieve(files, NONE_SENSOR_FILE, [ok |-> FALSE, content |-> <<>>],
                           refresh_cache)
         IN  [err |-> "AttributeError", cache |-> r.cache, self |-> None,
              requests |-> <<NONE_SENSOR_FILE>>]
    ELSE LET u == update(BlankSensor(sensor_id[1]), files, api, refresh_cache, drop_error)
         IN  [err |-> u.err, cache |-> u.cache,
              self |-> IF u.err = "" THEN Some(u.self) ELSE None,
              requests |-> <<SensorFilename(sensor_id[1])>>]

\* irceline.Metadata(**retrieval_kwargs) of resources/irceline.py: the three
\* retrievals in order; a method of None raises.  The ids of the time series
\* stay the strings of the response.
InstanceMetadata(files, ok, rows, refresh_cache) ==
    LET p == retrieve(files, phenomena_cache_file, Api("phenomena", ok, rows), refresh_cache)
        s == retrieve(p.cache, stations_cache_file, Api("stations", ok, rows), refresh_cache)
        t == retrieve(s.cache, time_series_cache_file, Api("timeseries", ok, rows),
                      refresh_cache)
    IN  IF p.data = None
        THEN [err |-> "AttributeError", cache |-> p.cache, time_series |-> None,
              requests |-> <<phenomena_cache_file>>]
        ELSE IF s.data = None
        THEN [err |-> "AttributeError", cache |-> s.cache, time_series |-> None,
              requests |-> <<phenomena_cache_file, stations_cache_file>>]
        ELSE IF t.data = None
        THEN [err |-> "AttributeError", cache |-> t.cache, time_series |-> None,
              requests |-> <<phenomena_cache_file, stations_cache_file,
                             time_series_cache_file>>]
        ELSE [err |-> "", cache |-> t.cache,
              time_series |-> Some(AsSeq([i \in 1..Len(t.data[1]) |->
                                [id |-> t.data[1][i].id,
                                 label |-> t.data[1][i].label,
                                 phenomenon |-> get_phenomenon_name(t.data[1][i].label),
                                 station_id |-> t.data[1][i].station_properties_id,
                                 station_label |-> t.data[1][i].station_properties_label,
                                 station_lon |-> t.data[1][i].station_geometry_coordinates[1],
                                 station_lat |-> t.data[1][i].station_geometry_coordinates[2]]])),
              requests |-> <<phenomena_cache_file, stations_cache_file,
                             time_series_cache_file>>]

\* One pass of the loop of find_nearest_pm_stations: the time series of the
\* phenomenon phen_long nearest to (lat, lon).  argmin of no distances raises
\* ValueError; argmin gives the label of the minimum in pandas before 1.0
\* and its position since, which is no label of the index of ids.
nearest_time_series(ts, phen_long, lat, lon, by_position) ==
    LET matches == {i \in 1..Len(ts) : ts[i].phenomenon = phen_long}
        distance(i) == helpers_haversine(lon, lat, ts[i].station_lon, ts[i].station_lat)
        id_nearest == CHOOSE i \in matches :
                          \A j \in matches : distance(i) < distance(j)
                                              \/ (distance(i) = distance(j) /\ i <= j)
    IN  IF matches = {}
        THEN [err |-> "ValueError", row |-> None]
        ELSE IF by_position
        THEN [err |-> "KeyError", row |-> None]
        ELSE [err |-> "",
              row |-> Some([time_series_id |-> ts[id_nearest].id,
                            station_label |-> ts[id_nearest].station_label,
                            distance |-> distance(id_nearest)])]

\* What find_nearest_pm_stations raises or returns once it has the sensor s:
\* the errors of the coordinates, of the catalog and of the two passes of
\* its loop in their order, or the two rows.
nearest_outcome(s, irceline_metadata, pm10, pm25) ==
    IF s.self[1].metadata = None
    THEN [err |-> "TypeError", cache |-> s.cache, requests |-> s.requests,
          nearest |-> None]
    ELSE IF ~({"location_latitude", "location_longitude"}
                 \subseteq DOMAIN s.self[1].metadata[1])
    THEN [err |-> "KeyError", cache |-> s.cache, requests |-> s.requests,
          nearest |-> None]
    ELSE IF irceline_metadata.err # ""
    THEN [err |-> irceline_metadata.err, cache |-> irceline_metadata.cache,
          requests |-> s.requests \o irceline_metadata.requests, nearest |-> None]
    ELSE IF pm10.err # ""
    THEN [err |-> pm10.err, cache |-> irceline_metadata.cache,
          requests |-> s.requests \o irceline_metadata.requests, nearest |-> None]
    ELSE IF pm25.err # ""
    THEN [err |-> pm25.err, cache |-> irceline_metadata.cache,
          requests |-> s.requests \o irceline_metadata.requests, nearest |-> None]
    ELSE [err |-> "", cache |-> irceline_metadata.cache,
          requests |-> s.requests \o irceline_metadata.requests,
          nearest |-> Some([pm10 |-> pm10.row[1], pm25 |-> pm25.row[1]])]

\* The loop over (PM10, PM2.5) of find_nearest_pm_stations, at the
\* coordinates of the sensor.
nearest_of_catalog(s, lat, lon, irceline_metadata, by_position) ==
    nearest_outcome(s, irceline_metadata,
                    nearest_time_series(irceline_metadata.time_series[1], PM10_LONG,
                                        lat, lon, by_position),
                    nearest_time_series(irceline_metadata.time_series[1], PM25_LONG,
                                        lat, lon, by_position))

\* The coordinates of the sensor and irceline.Metadata(**retrieval_kwargs).
nearest_of_sensor(s, ok, rows, refresh_cache, by_position) ==
    IF s.err # ""
    THEN [err |-> s.err, cache |-> s.cache, requests |-> s.requests, nearest |-> None]
    ELSE nearest_of_catalog(s, AsInt(s.self[1].metadata[1].location_latitude),
                            AsInt(s.self[1].metadata[1].location_longitude),
                            InstanceMetadata(s.cache, ok, rows, refresh_cache), by_position)

\* find_nearest_pm_stations(sensor_id, sensor_obj, **retrieval_kwargs)
find_nearest_pm_stations(sensor_id, sensor_obj, files, api, ok, rows, refresh_cache, drop_error, by_position) ==
    IF bool_of_id(sensor_id) + bool_of_object(sensor_obj) # 1
    THEN [err |-> "ValueError", cache |-> files, requests |-> <<>>,
          nearest |-> None]
    ELSE nearest_of_sensor(IF sensor_obj # None
                           THEN [err |-> "", cache |-> files, self |-> sensor_obj,
                                 requests |-> <<>>]
                           ELSE new_sensor(sensor_id, files, api, refresh_cache, drop_error),
                           ok, rows, refresh_cache, by_position)

\* What compare_sensor_and_station raises or returns, of the results of its
\* steps: the first error in the order of the steps, or the frame.
compare_outcome(s, g, cleaned, n, pm25, pm10) ==
    IF s.err # ""
    THEN [err |-> s.err, cache |-> s.cache, requests |-> s.requests, urls |-> <<>>,
          sensor |-> s.self, data |-> None]
    ELSE IF g.err # ""
    THEN [err |-> g.err, cache |-> g.cache, requests |-> s.requests \o g.requests,
          urls |-> <<>>, sensor |-> Some(g.self),
          data |-> None]
    ELSE IF g.self.measurements = None
    THEN \* None.replace in clean_data
         [err |-> "AttributeError", cache |-> g.cache,
          requests |-> s.requests \o g.requests, urls |-> <<>>,
          sensor |-> Some(g.self), data |-> None]
    ELSE IF n.err # ""
    THEN [err |-> n.err, cache |-> n.cache,
          requests |-> s.requests \o g.requests \o n.requests, urls |-> <<>>,
          sensor |-> Some(cleaned), data |-> None]
    ELSE IF pm25.err # ""
    THEN [err |-> pm25.err, cache |-> pm25.cache,
          requests |-> s.requests \o g.requests \o n.requests \o pm25.requests,
          urls |-> pm25.urls, sensor |-> Some(cleaned),
          data |-> None]
    ELSE IF pm10.err # ""
    THEN [err |-> pm10.err, cache |-> pm10.cache,
          requests |-> s.requests \o g.requests \o n.requests \o pm25.requests
                           \o pm10.requests,
          urls |-> pm25.urls \o pm10.urls,
          sensor |-> Some(cleaned), data |-> None]
    ELSE [err |-> "", cache |-> pm10.cache,
          requests |-> s.requests \o g.requests \o n.requests \o pm25.requests
                           \o pm10.requests,
          urls |-> pm25.urls \o pm10.urls,
          sensor |-> Some(cleaned),
          data |-> Some([sensor |-> cleaned.hourly_means,
                         station |-> [pm25 |-> pm25.data[1], pm10 |-> pm10.data[1]],
                         plots |-> <<n.nearest[1].pm25, n.nearest[1].pm10>>])]

\* The second pass of the loop over ("pm2.5", "pm10"): get_data of the
\* nearest PM10 time series, with the cache the first pass left.
compare_pm10(s, g, cleaned, n, pm25, start_date, end_date, data_api, now, refresh_cache) ==
    compare_outcome(s, g, cleaned, n, pm25,
                    irceline_get_data(pm25.cache, data_api, now,
                                      AsInt(n.nearest[1].pm10.time_series_id),
                                      start_date, end_date, refresh_cache))

\* The first pass of the loop: get_data of the nearest PM2.5 time series.
compare_pm25(s, g, cleaned, n, start_date, end_date, data_api, now, refresh_cache) ==
    compare_pm10(s, g, cleaned, n,
                 irceline_get_data(n.cache, data_api, now,
                                   AsInt(n.nearest[1].pm25.time_series_id),
                                   start_date, end_date, refresh_cache),
                 start_date, end_date, data_api, now, refresh_cache)

\* find_nearest_pm_stations(sensor_obj=sensor, **retrieval_kwargs) of the
\* cleaned sensor.
compare_nearest(s, g, cleaned, start_date, end_date, api, ok, rows, data_api, now, refresh_cache, drop_error, by_position) ==
    compare_pm25(s, g, cleaned,
                 find_nearest_pm_stations(None, Some(cleaned), g.cache, api, ok, rows,
                                          refresh_cache, drop_error, by_position),
                 start_date, end_date, data_api, now, refresh_cache)

\* sensor.clean_data() of the sensor get_data left.
compare_cleaned(s, g, start_date, end_date, api, ok, rows, data_api, now, refresh_cache, drop_error, by_position) ==
    compare_nearest(s, g,
                    [g.self EXCEPT !.measurements = Some(clean_data(g.self.measurements[1]))],
                    start_date, end_date, api, ok, rows, data_api, now, refresh_cache,
                    drop_error, by_position)

\* sensor.get_data(start_date, end_date, **retrieval_kwargs)
compare_sensor_data(s, start_date, end_date, api, arch, ok, rows, data_api, now, refresh_cache, drop_error, by_position) ==
    compare_cleaned(s, get_data(s.self[1], s.cache, arch, start_date, end_date, refresh_cache),
                    start_date, end_date, api, ok, rows, data_api, now, refresh_cache,
                    drop_error, by_position)

\* compare_sensor_and_station(sensor_id, sensor_obj, start_date, end_date,
\* **retrieval_kwargs) at the instant now: get_data and clean_data of the
\* sensor, the nearest stations, their data for "pm2.5" and then for "pm10",
\* and the frame and the plots of the two.  sensor is the object after the
\* call if there is one.
compare_sensor_and_station(sensor_id, sensor_obj, start_date, end_date, files, api, arch, ok, rows, data_api, now, refresh_cache, drop_error, by_position) ==
    IF start_date = None \/ end_date = None
    THEN [err |-> "ValueError", cache |-> files, requests |-> <<>>, urls |-> <<>>,
          sensor |-> sensor_obj, data |-> None]
    ELSE compare_sensor_data(IF sensor_obj # None
                             THEN [err |-> "", cache |-> files, self |-> sensor_obj,
                                   requests |-> <<>>]
                             ELSE new_sensor(sensor_id, files, api, refresh_cache, drop_error),
                             start_date[1], end_date[1], api, arch, ok, rows, data_api, now,
                             refresh_cache, drop_error, by_position)

\* The luftdaten sensor object of the state, if it was constructed.
SensorObject ==
    IF metadata = None THEN None
    ELSE Some([sensor_id |-> SENSOR_ID, metadata |-> metadata, sensor_type |-> sensor_type,
               current_values |-> current_values, measurements |-> measurements,
               hourly_coverage |-> hourly_coverage, hourly_means |-> hourly_means])

(***************************************************************************)
(* The inputs: what the remote services hold.                              *)
(***************************************************************************)
SensorTypes == {SDS011, DHT22, BME280}

Endpoints == {"phenomena", "stations", "timeseries"}

\* The ids of the time series a Sensor is constructed for.
TimeSeriesIds == 1..2

CacheFiles ==
    {phenomena_cache_file, stations_cache_file, time_series_cache_file}
    \cup {ArchiveFilename(d, Lower(st), SENSOR_ID) : d \in 1..MaxDay, st \in SensorTypes}
    \cup {DataFilename(id, s, e) : id \in TimeSeriesIds, s \in 1..MaxDate, e \in 1..MaxDate}
    \cup {SensorFilename(SENSOR_ID), SENSOR_INFO_CACHE_FILE, NONE_SENSOR_FILE}

\* n rows of one hour of a day, 144 s apart, with the values v1 and v2.
Burst(day, hour, n, v1, v2) ==
    AsSeq([k \in 1..n |-> [timestamp |-> <<day, hour, (k - 1) * (SECONDS_PER_HOUR \div 25)>>,
                           values |-> <<v1[k], v2[k]>>]])

\* A day of an SDS011 with 24 rows in hour 0, three of them error values in
\* the second column, no row in hour 1 and one row in hour 2.
FileA(day) ==
    Burst(day, 0, 24, [k \in 1..24 |-> 100 + k], [k \in 1..24 |-> IF k <= 3 THEN 9999 ELSE 50])
    \o Burst(day, 2, 1, <<30>>, <<19999>>)

\* A day of an SDS011 with one row in hour 22 and 25 rows in hour 23, seven
\* of them dead in the second column.
FileB(day) ==
    Burst(day, 22, 1, <<20>>, <<20>>)
    \o Burst(day, 23, 25, [k \in 1..25 |-> 40 + (k % 2)],
             [k \in 1..25 |-> IF k \in 5..11 THEN 9 ELSE 80])

\* A day of an SDS011 with 22 rows in hour 12 after a row with the timestamp
\* of the first of them, and a last row that is of hour 11.
FileC(day) ==
    <<[timestamp |-> <<day, 12, 0>>, values |-> <<999, 999>>]>>
    \o Burst(day, 12, 22, [k \in 1..22 |-> 70 + k], [k \in 1..22 |-> 20 + k])
    \o Burst(day, 11, 1, <<15>>, <<9999>>)

\* A day of a sensor of temperature and humidity: three rows in hour 6.
FileT(day) == Burst(day, 6, 3, <<215, 5, 220>>, <<600, 610, 9999>>)

\* The file of a day, for a sensor type; k tells the SDS011 files apart.
DayFile(stype, day, k) ==
    IF stype # SDS011 THEN FileT(day)
    ELSE CASE k % 3 = 0 -> FileA(day)
           [] k % 3 = 1 -> FileB(day)
           [] OTHER -> FileC(day)

\* The answer of the archive for a day without a file (404).
Missing == [ok |-> FALSE, content |-> <<>>]

\* What the archive may hold: a file for each day of avail, nothing for the
\* other days.
Archives(stype) ==
    {[d \in 1..MaxDay |-> IF d \in avail
                           THEN [ok |-> TRUE, content |-> DayFile(stype, d, d + first)]
                           ELSE Missing] :
        avail \in SUBSET (1..MaxDay), first \in 0..2}

\* The values of a short file: a dead reading, a normal one, an error value.
DEAD_VALUE == 9

NORMAL_VALUE == 10

ERROR_VALUE == 9999

\* The first columns of the short files of n rows: dead and normal readings
\* and at most one error value.
ShortColumns(n) ==
    {AsSeq([i \in 1..n |-> IF i = e THEN ERROR_VALUE
                            ELSE IF i \in D THEN DEAD_VALUE ELSE NORMAL_VALUE]) :
        D \in SUBSET (1..n), e \in 0..n}

\* The second column of a short file mirrors the first: dead for normal,
\* normal for dead, the other error value for an error value.
Mirror(v) ==
    CASE v = DEAD_VALUE -> NORMAL_VALUE
      [] v = NORMAL_VALUE -> DEAD_VALUE
      [] OTHER -> 19999

\* A day of Len(col) rows in hour 0 with the first column col.
ShortFile(day, col) == Burst(day, 0, Len(col), col, [k \in 1..Len(col) |-> Mirror(col[k])])

\* The phenomena of the time series the API may serve.
CatalogPhenomena == {PM25_LONG, PM25_UPPER, REL_HUMIDITY}

\* The timeseries endpoint serves n rows with the ids 1..n, at the stations
\* in the order of API_STATIONS.
ApiTimeSeriesTables ==
    UNION {{AsSeq([i \in 1..n |->
                     ApiTimeSeriesRow(<<DIGITS[i + 1]>>, ph[i],
                                      API_STATIONS[((i - 1) % Len(API_STATIONS)) + 1])]) :
                ph \in [1..n -> CatalogPhenomena]} :
           n \in 1..MaxSeries}

\* The API answers every endpoint, or fails some: the time series are read
\* after the phenomena and the stations, so that what the API would serve is
\* never read when an endpoint fails.
ApiStates ==
    {[ok |-> [e \in Endpoints |-> TRUE], rows |-> t] : t \in ApiTimeSeriesTables}
    \cup {[ok |-> o, rows |-> <<>>] : o \in {f \in [Endpoints -> BOOLEAN] : \E e \in Endpoints : ~f[e]}}

\* The sensors find_nearest_sensors is called for.
Sensors ==
    {[lat |-> 60, lon |-> 0, phenomena |-> p] :
        p \in {<<PM10_SHORT, PM25_SHORT>>, <<HUMIDITY, PM25_SHORT>>, <<PM25_LONG>>}}

\* The arguments search_proximity is called with, as <<lat, lon, radius>>:
\* the radii are 0, the distance of 60 degrees of longitude at latitude 60,
\* and the distance of 60 degrees of latitude.
SearchArguments ==
    {<<60, 0>>, <<0, 0>>, <<0, 60>>} \X {0, ArcKm[2], ArcKm[5]}

\* The arguments query_time_series is called with.
QueryArguments ==
    {<<p, Some(60), Some(0)>> : p \in {PM25_SHORT, <<"M", "A", "T", "T", "E", "R">>, HUMIDITY}}
    \cup {<<PM25_SHORT, None, None>>, <<PM25_SHORT, Some(0), None>>, <<PM25_SHORT, None, Some(0)>>}
    \cup {<<PM25_SHORT, Some(0), Some(0)>>, <<<<"M", "A", "T", "T", "E", "R">>, None, None>>}

(***************************************************************************)
(* Initial states.                                                         *)
(***************************************************************************)
InitCalls ==
    /\ cache = [f \in CacheFiles |-> None]
    /\ requests = <<>>
    /\ call = [op |-> "init"]
    /\ ret = None
    /\ err = ""
    /\ warned = <<>>

\* No irceline Sensor, and a data endpoint without values.
InitIrceline ==
    /\ today = SECONDS_PER_DAY
    /\ api_data = [ok |-> TRUE, days |-> {}]
    /\ irceline_sensor = None
    /\ urls = <<>>

\* The class attributes of Metadata before any load.
InitMetadata ==
    /\ phenomena = None
    /\ stations = None
    /\ time_series = None
    /\ initialized = FALSE

\* A luftdaten sensor after construction.
InitSensor ==
    /\ measurements = None
    /\ hourly_coverage = None
    /\ hourly_means = None

\* No registry loaded, no influencair Sensor, and a sheet that does not answer.
InitRegistry ==
    /\ sheet = [ok |-> FALSE, content |-> <<>>]
    /\ registry = [sensors |-> None, initialized |-> FALSE]
    /\ influencair_sensor = None
    /\ message = None

\* The metadata and the current values of the luftdaten sensor are not read
\* by the fetches of measurements: they are left out of those scenarios.
InitThreads == threads = [t \in Threads |-> IdleThread]

InitFurther ==
    /\ InitThreads
    /\ sensor_api = [ok |-> FALSE, content |-> <<>>]
    /\ metadata = None
    /\ current_values = None
    /\ downloaded = FALSE
    /\ InitRegistry

\* The luftdaten sensor and its archive.
Init ==
    /\ InitCalls
    /\ InitMetadata
    /\ InitIrceline
    /\ api_ok = [e \in Endpoints |-> TRUE]
    /\ api_timeseries = <<>>
    /\ InitSensor
    /\ InitFurther
    /\ sensor_type \in SensorTypes
    /\ archive \in Archives(sensor_type)

\* An SDS011 sensor whose archive holds one short file, for day 1.
InitClean ==
    /\ InitCalls
    /\ InitMetadata
    /\ InitIrceline
    /\ api_ok = [e \in Endpoints |-> TRUE]
    /\ api_timeseries = <<>>
    /\ InitSensor
    /\ InitFurther
    /\ sensor_type = SDS011
    /\ \E n \in 0..MaxLen : \E col \in ShortColumns(n) :
          archive = [d \in 1..MaxDay |->
                        IF d = 1 /\ n > 0 THEN [ok |-> TRUE, content |-> ShortFile(1, col)]
                        ELSE Missing]

\* The IRCELINE API and the catalog before its first load.
InitNearest ==
    /\ InitCalls
    /\ InitMetadata
    /\ InitIrceline
    /\ \E a \in ApiStates : api_ok = a.ok /\ api_timeseries = a.rows
    /\ InitSensor
    /\ InitFurther
    /\ sensor_type = SDS011
    /\ archive = [d \in 1..MaxDay |-> Missing]

\* The clock of a fetch of IRCELINE data: the day before the last date, at
\* midnight or in the afternoon.
TIMES_OF_DAY == {0, 13 * SECONDS_PER_HOUR + 1800}

Clocks == {normalize(MaxDate - 1) + t : t \in TIMES_OF_DAY}

\* The dates a fetch of IRCELINE data is asked for, as <<start_date, end_date>>:
\* past days, the current day and the day after it as end_date, and start
\* dates later than the end date.
FetchDates ==
    {<<1, 1>>, <<1, MaxDate - 1>>, <<1, MaxDate>>, <<2, 1>>, <<3, 1>>,
     <<MaxDate - 1, MaxDate - 1>>, <<MaxDate, MaxDate - 1>>}

\* The data endpoint: it answers or not, and has values for no day, for day
\* 1 or for every day.
ApiDataStates ==
    {[ok |-> TRUE, days |-> d] : d \in {{}, {1}, 1..MaxDate}} \cup {[ok |-> FALSE, days |-> {}]}

\* The catalog of the fetches of IRCELINE data: a time series of PM2.5 and
\* one of PM10.
FetchCatalog ==
    <<ApiTimeSeriesRow(<<DIGITS[2]>>, PM25_LONG, API_STATIONS[1]),
      ApiTimeSeriesRow(<<DIGITS[3]>>, PM10_LONG, API_STATIONS[2])>>

\* The IRCELINE API at some instant, before the construction of a Sensor.
InitFetch ==
    /\ InitCalls
    /\ InitMetadata
    /\ api_ok = [e \in Endpoints |-> TRUE]
    /\ api_timeseries = FetchCatalog
    /\ InitSensor
    /\ InitFurther
    /\ sensor_type = SDS011
    /\ archive = [d \in 1..MaxDay |-> Missing]
    /\ today \in Clocks
    /\ api_data \in ApiDataStates
    /\ irceline_sensor = None
    /\ urls = <<>>

\* The IRCELINE API with any of its endpoints failing, and the catalog
\* before its first load.
InitLoad ==
    /\ InitCalls
    /\ InitMetadata
    /\ InitIrceline
    /\ api_ok \in [Endpoints -> BOOLEAN]
    /\ api_timeseries = FetchCatalog
    /\ InitSensor
    /\ InitFurther
    /\ sensor_type = SDS011
    /\ archive = [d \in 1..MaxDay |-> Missing]

\* One object of a response of the sensor URL.
SensorRecord(stype, timestamp, values) ==
    [id |-> timestamp, sensor_id |-> SENSOR_ID, sensor_sensor_type_name |-> stype,
     location_latitude |-> <<"6", "0">>, location_longitude |-> <<"0">>,
     timestamp |-> timestamp, sensordatavalues |-> values]

\* Responses with a usable record: the readings of the last five minutes.
GoodResponses ==
    {<<SensorRecord(SDS011, 1, <<[value_type |-> P1, value |-> 123],
                                [value_type |-> P2, value |-> 45]>>)>>,
     <<SensorRecord(SDS011, 1, <<[value_type |-> P1, value |-> 200],
                                [value_type |-> P2, value |-> 100]>>),
       SensorRecord(SDS011, 2, <<[value_type |-> P1, value |-> 19999],
                                [value_type |-> P2, value |-> 9999]>>)>>,
     <<SensorRecord(DHT22, 1, <<[value_type |-> TEMPERATURE, value |-> 215],
                               [value_type |-> HUMIDITY, value |-> 600]>>)>>}

\* Responses without a usable record: an empty list, an object that is not a
\* record, and a record without the sensor type.
BadResponses ==
    {<<>>,
     <<[detail |-> "Not found."]>>,
     <<[id |-> 1, timestamp |-> 1,
        sensordatavalues |-> <<[value_type |-> P1, value |-> 123]>>]>>}

\* What the sensor URL answers: a response, or a status code that is not 2xx.
SensorApiStates ==
    {[ok |-> TRUE, content |-> c] : c \in GoodResponses \cup BadResponses}
    \cup {[ok |-> FALSE, content |-> <<>>]}

\* An empty cache directory, and a sensor URL that answers anything.
InitRetrieve ==
    /\ InitThreads
    /\ InitCalls
    /\ InitMetadata
    /\ InitIrceline
    /\ api_ok = [e \in Endpoints |-> TRUE]
    /\ api_timeseries = <<>>
    /\ InitSensor
    /\ sensor_type = SDS011
    /\ archive = [d \in 1..MaxDay |-> Missing]
    /\ sensor_api \in SensorApiStates
    /\ metadata = None
    /\ current_values = None
    /\ downloaded = FALSE
    /\ InitRegistry

\* The first record of a response as the constructor stored it.
MetadataOf(content) ==
    [c \in (DOMAIN content[1]) \ DROPPED_COLUMNS |-> content[1][c]]

\* A luftdaten sensor that was constructed from a response with a usable
\* record; since then the cache file was kept, deleted or written by another
\* retrieval, and the sensor URL answers anything.
InitUpdate ==
    /\ InitThreads
    /\ requests = <<>>
    /\ call = [op |-> "init"]
    /\ ret = None
    /\ err = ""
    /\ warned = <<>>
    /\ InitMetadata
    /\ InitIrceline
    /\ api_ok = [e \in Endpoints |-> TRUE]
    /\ api_timeseries = <<>>
    /\ InitSensor
    /\ archive = [d \in 1..MaxDay |-> Missing]
    /\ sensor_api \in SensorApiStates
    /\ \E c \in GoodResponses :
          /\ metadata = Some(MetadataOf(c))
          /\ sensor_type = c[1].sensor_sensor_type_name
          /\ current_values = Some(current_values_of(c[Len(c)].sensordatavalues))
          /\ downloaded = FALSE
          /\ InitRegistry
          /\ \E cached \in {None, Some(<<>>)} \cup {Some(g) : g \in GoodResponses} :
                cache = [f \in CacheFiles |->
                            IF f = SensorFilename(SENSOR_ID) THEN cached ELSE None]

\* The catalogs of the comparisons: a time series of PM2.5 and one of PM10,
\* or time series of PM2.5 only.
CompareCatalogs ==
    {FetchCatalog,
     <<ApiTimeSeriesRow(<<DIGITS[2]>>, PM25_LONG, API_STATIONS[1]),
       ApiTimeSeriesRow(<<DIGITS[3]>>, PM25_LONG, API_STATIONS[4])>>}

\* An empty cache directory, no luftdaten sensor object yet, a sensor URL
\* that answers with a record or not at all, an archive with or without the
\* file of day 1, and the IRCELINE API with or without data.
InitCompare ==
    /\ InitThreads
    /\ InitCalls
    /\ InitMetadata
    /\ api_ok = [e \in Endpoints |-> TRUE]
    /\ api_timeseries \in CompareCatalogs
    /\ InitSensor
    /\ sensor_type = None
    /\ archive \in {a \in Archives(SDS011) : \A d \in 1..MaxDay : a[d].ok /\ a[1].content = FileA(1)}
                    \cup {[d \in 1..MaxDay |-> Missing]}
    /\ today = normalize(MaxDate - 1)
    /\ api_data \in {[ok |-> TRUE, days |-> 1..MaxDate], [ok |-> FALSE, days |-> {}]}
    /\ irceline_sensor = None
    /\ urls = <<>>
    /\ sensor_api \in {[ok |-> TRUE, content |-> c] : c \in {g \in GoodResponses :
                            g[1].sensor_sensor_type_name = SDS011 /\ Len(g) = 1}}
                       \cup {[ok |-> FALSE, content |-> <<>>]}
    /\ metadata = None
    /\ current_values = None
    /\ downloaded = FALSE
    /\ InitRegistry

\* A row of the sheet: chip, the two sensor ids, label, address, floor, side.
SheetRow(chip, pm_id, ht_id, label) ==
    <<PyStr(chip), PyStr(pm_id), PyStr(ht_id), label, PyStr("Rue 1"), PyNaN, PyStr("Street")>>

\* The rows of the sheet: sensor 5 is the PM sensor of one chip and, in a
\* later row, the humidity sensor of another; or the rows the other way round.
SheetRows ==
    {<<>>,
     <<SheetRow("c1", <<"5">>, <<"6">>, PyStr("first")),
       SheetRow("c2", <<"7">>, <<"5">>, PyNaN)>>,
     <<SheetRow("c2", <<"7">>, <<"5">>, PyNaN),
       SheetRow("c1", <<"5">>, <<"6">>, PyStr("first"))>>}

\* Removes the cells at the given positions from a line.
WithoutCells(line, positions) ==
    SelectSeq(AsSeq([k \in 1..Len(line) |-> <<k, line[k]>>]), LAMBDA p : p[1] \notin positions)

CellsOf(line) == AsSeq([k \in 1..Len(line) |-> line[k][2]])

\* The sheets: the columns Metadata selects, or a sheet without some of them.
Sheets ==
    {<<<<"InfluencAir sensors">>, CellsOf(WithoutCells(INFLUENCAIR_COLUMNS, lacking))>>
         \o AsSeq([i \in 1..Len(rows) |-> CellsOf(WithoutCells(rows[i], lacking))]) :
        rows \in SheetRows, lacking \in {{}, {4}, {2, 6}, {7}}}

\* What the export URL of the sheet answers.
SheetStates ==
    {[ok |-> TRUE, content |-> c] : c \in Sheets} \cup {[ok |-> FALSE, content |-> <<>>]}

\* The ids a Sensor is constructed with: a listed id as a string and as an
\* integer, and an id that is not listed.
SensorIds == {PyStr(<<"5">>), PyInt(5), PyStr(<<"9">>)}

\* An influencair Sensor before its first lookup in the registry, with the
\* label of its parent class; no registry loaded.
InitSheet ==
    /\ InitThreads
    /\ InitCalls
    /\ InitMetadata
    /\ InitIrceline
    /\ api_ok = [e \in Endpoints |-> TRUE]
    /\ api_timeseries = <<>>
    /\ InitSensor
    /\ sensor_type = SDS011
    /\ archive = [d \in 1..MaxDay |-> Missing]
    /\ sensor_api = [ok |-> FALSE, content |-> <<>>]
    /\ metadata = None
    /\ current_values = None
    /\ downloaded = FALSE
    /\ sheet \in SheetStates
    /\ registry = [sensors |-> None, initialized |-> FALSE]
    /\ \E id \in SensorIds :
          influencair_sensor = Some([sensor_id |-> id, influencair_metadata |-> None,
                                     chip_id |-> None, label |-> PyStr("parent")])
    /\ message = None

(***************************************************************************)
(* The operations.                                                         *)
(***************************************************************************)
\* Metadata(**retrieval_kwargs)
MetadataCall(refresh_cache) ==
    \E r \in {MetadataInit(Metadata, cache, api_ok, api_timeseries, refresh_cache)} :
        /\ call' = [op |-> "Metadata", refresh_cache |-> refresh_cache]
        /\ phenomena' = r.m.phenomena
        /\ stations' = r.m.stations
        /\ time_series' = r.m.time_series
        /\ initialized' = r.m.initialized
        /\ cache' = r.cache
        /\ requests' = r.requests
        /\ ret' = None
        /\ err' = r.err
        /\ UNCHANGED <<api_ok, api_timeseries, luftdaten_vars, other_vars>>

\* Metadata.query_time_series(phenomenon, lat_nearest, lon_nearest)
QueryTimeSeries(phenomenon, lat_nearest, lon_nearest) ==
    \E r \in {query_time_series(time_series, phenomenon, lat_nearest, lon_nearest)} :
        /\ call' = [op |-> "query_time_series", phenomenon |-> phenomenon,
                    lat_nearest |-> lat_nearest, lon_nearest |-> lon_nearest]
        /\ ret' = IF r.err = "" THEN Some([distance |-> r.distance, rows |-> r.rows]) ELSE None
        /\ err' = r.err
        /\ requests' = <<>>
        /\ UNCHANGED <<cache, metadata_vars, luftdaten_vars, other_vars>>

\* Metadata.search_proximity(lat, lon, radius), of the class-level catalog
\* or of an instance catalog that holds the same stations.
SearchProximity(instance, lat, lon, radius) ==
    \E r \in {IF instance THEN instance_search_proximity(stations, lat, lon, radius)
                          ELSE search_proximity(stations, lat, lon, radius)} :
        /\ call' = [op |-> "search_proximity", instance |-> instance,
                    lat |-> lat, lon |-> lon, radius |-> radius]
        /\ ret' = IF r.err = "" THEN Some(r.rows) ELSE None
        /\ err' = r.err
        /\ requests' = <<>>
        /\ UNCHANGED <<cache, metadata_vars, luftdaten_vars, other_vars>>

\* find_nearest_sensors(sensor, **retrieval_kwargs)
FindNearestSensors(sensor, refresh_cache, backwards) ==
    \E r \in {find_nearest_sensors(Metadata, cache, api_ok, api_timeseries, sensor,
                                    refresh_cache, backwards)} :
        /\ call' = [op |-> "find_nearest_sensors", sensor |-> sensor,
                    refresh_cache |-> refresh_cache]
        /\ phenomena' = r.m.phenomena
        /\ stations' = r.m.stations
        /\ time_series' = r.m.time_series
        /\ initialized' = r.m.initialized
        /\ cache' = r.cache
        /\ requests' = r.requests
        /\ ret' = IF r.err = "" THEN Some(r.nearest) ELSE None
        /\ err' = r.err
        /\ UNCHANGED <<api_ok, api_timeseries, luftdaten_vars, other_vars>>

\* Sensor.get_data(start_date, end_date, **retrieval_kwargs)
GetData(start_date, end_date, refresh_cache) ==
    \E r \in {get_data(Sensor, cache, archive, start_date, end_date, refresh_cache)} :
        /\ call' = [op |-> "get_data", start_date |-> start_date, end_date |-> end_date]
        /\ measurements' = r.self.measurements
        /\ hourly_coverage' = r.self.hourly_coverage
        /\ hourly_means' = r.self.hourly_means
        /\ cache' = r.cache
        /\ requests' = r.requests
        /\ ret' = None
        /\ err' = r.err
        /\ UNCHANGED <<metadata_vars, archive, sensor_type, other_vars>>

\* Sensor.clean_data(); without measurements None.replace raises
CleanData ==
    /\ call' = [op |-> "clean_data"]
    /\ IF measurements = None
       THEN /\ err' = "AttributeError"
            /\ UNCHANGED measurements
       ELSE /\ err' = ""
            /\ measurements' = Some(clean_data(measurements[1]))
    /\ ret' = None
    /\ requests' = <<>>
    /\ UNCHANGED <<cache, metadata_vars, archive, sensor_type, hourly_coverage, hourly_means, other_vars>>

\* Sensor.calculate_hourly_coverage(); without measurements None.resample raises
CalculateHourlyCoverage ==
    /\ call' = [op |-> "calculate_hourly_coverage"]
    /\ IF measurements = None
       THEN /\ err' = "AttributeError"
            /\ UNCHANGED hourly_coverage
       ELSE /\ err' = ""
            /\ hourly_coverage' = Some(calculate_hourly_coverage(measurements[1]))
    /\ ret' = None
    /\ requests' = <<>>
    /\ UNCHANGED <<cache, metadata_vars, archive, sensor_type, measurements, hourly_means, other_vars>>

\* BaseSensor.get_hourly_means(min_count); without measurements
\* None.resample raises
GetHourlyMeans(min_count) ==
    /\ call' = [op |-> "get_hourly_means", min_count |-> min_count]
    /\ IF measurements = None
       THEN /\ err' = "AttributeError"
            /\ ret' = None
       ELSE /\ err' = ""
            /\ ret' = Some(get_hourly_means(measurements[1], min_count))
    /\ requests' = <<>>
    /\ UNCHANGED <<cache, metadata_vars, luftdaten_vars, other_vars>>

\* Sensor.calculate_hourly_means(min_data_coverage)
CalculateHourlyMeans(min_data_coverage) ==
    /\ call' = [op |-> "calculate_hourly_means", min_data_coverage |-> min_data_coverage]
    /\ IF measurements = None
       THEN /\ err' = "AttributeError"
            /\ UNCHANGED <<hourly_coverage, hourly_means, threads>>
       ELSE LET hc == IF hourly_coverage = None
                      THEN calculate_hourly_coverage(measurements[1])
                      ELSE hourly_coverage[1]
            IN  /\ err' = ""
                /\ hourly_coverage' = Some(hc)
                /\ hourly_means' = Some(calculate_hourly_means(measurements[1], hc,
                                                               min_data_coverage))
    /\ ret' = None
    /\ requests' = <<>>
    /\ UNCHANGED <<cache, metadata_vars, archive, sensor_type, measurements, other_vars>>

\* irceline.Sensor(timeseries_id)
IrcelineSensor(timeseries_id) ==
    \E r \in {IrcelineSensorInit(Metadata, cache, api_ok, api_timeseries, timeseries_id)} :
        /\ call' = [op |-> "Sensor", timeseries_id |-> timeseries_id]
        /\ phenomena' = r.m.phenomena
        /\ stations' = r.m.stations
        /\ time_series' = r.m.time_series
        /\ initialized' = r.m.initialized
        /\ cache' = r.cache
        /\ requests' = r.requests
        /\ irceline_sensor' = IF r.err = "" THEN r.self ELSE irceline_sensor
        /\ ret' = None
        /\ err' = r.err
        /\ UNCHANGED <<api_ok, api_timeseries, luftdaten_vars, warned, today, api_data, urls,
                       further_vars>>

\* sensor.get_measurements(start_date, end_date, **retrieval_kwargs) on the
\* irceline Sensor
GetMeasurements(start_date, end_date, refresh_cache) ==
    /\ irceline_sensor # None
    /\ \E r \in {get_measurements(irceline_sensor[1], cache, api_data, today,
                                   start_date, end_date, refresh_cache)} :
        /\ call' = [op |-> "get_measurements", start_date |-> start_date,
                    end_date |-> end_date]
        /\ irceline_sensor' = Some(r.self)
        /\ cache' = r.cache
        /\ requests' = r.requests
        /\ urls' = r.urls
        /\ warned' = r.warnings
        /\ ret' = None
        /\ err' = r.err
        /\ UNCHANGED <<metadata_vars, luftdaten_vars, today, api_data, further_vars>>

\* get_data(time_series, start_date, end_date, **retrieval_kwargs) of
\* resources/irceline.py
IrcelineGetData(time_series_id, start_date, end_date, refresh_cache) ==
    \E r \in {irceline_get_data(cache, api_data, today, time_series_id,
                                 start_date, end_date, refresh_cache)} :
        /\ call' = [op |-> "irceline.get_data", start_date |-> start_date,
                    end_date |-> end_date]
        /\ cache' = r.cache
        /\ requests' = r.requests
        /\ urls' = r.urls
        /\ warned' = <<>>
        /\ ret' = r.data
        /\ err' = r.err
        /\ UNCHANGED <<metadata_vars, luftdaten_vars, today, api_data, irceline_sensor,
                       further_vars>>

\* Sensor(sensor_id, **retrieval_kwargs) of luftdaten: the attributes start
\* as None and update fills them; when update raises, the caller gets no new
\* object and the sensor it had stays.
LuftdatenSensor(refresh_cache) ==
    \E drop_error \in DROP_ERRORS :
    \E r \in {update([sensor_id |-> SENSOR_ID, metadata |-> None, sensor_type |-> None,
                      current_values |-> None],
                     cache, sensor_api, refresh_cache, drop_error)} :
        /\ call' = [op |-> "luftdaten.Sensor", refresh_cache |-> refresh_cache]
        /\ IF r.err = ""
           THEN /\ metadata' = r.self.metadata
                /\ sensor_type' = r.self.sensor_type
                /\ current_values' = r.self.current_values
                /\ measurements' = None
                /\ hourly_coverage' = None
                /\ hourly_means' = None
           ELSE UNCHANGED <<metadata, sensor_type, current_values, measurements,
                            hourly_coverage, hourly_means, threads>>
        /\ cache' = r.cache
        /\ requests' = <<SensorFilename(SENSOR_ID)>>
        /\ ret' = None
        /\ err' = r.err
        /\ UNCHANGED <<metadata_vars, archive, sensor_api, downloaded, registry_vars, warned, irceline_vars, threads>>

\* sensor.update(**retrieval_kwargs)
Update(refresh_cache) ==
    \E drop_error \in DROP_ERRORS :
    \E r \in {update(SensorMetadata, cache, sensor_api, refresh_cache, drop_error)} :
        /\ call' = [op |-> "update", refresh_cache |-> refresh_cache]
        /\ metadata' = r.self.metadata
        /\ sensor_type' = r.self.sensor_type
        /\ current_values' = r.self.current_values
        /\ cache' = r.cache
        /\ requests' = <<SensorFilename(SENSOR_ID)>>
        /\ ret' = None
        /\ err' = r.err
        /\ UNCHANGED <<metadata_vars, archive, measurements, hourly_coverage, hourly_means,
                       sensor_api, downloaded, registry_vars, warned, irceline_vars, threads>>

\* compare_sensor_and_station(sensor_id, sensor_obj, start_date, end_date,
\* **retrieval_kwargs); with_object tells that sensor_obj is the luftdaten
\* sensor object, which the call then changes.
CompareSensorAndStation(sensor_id, with_object, start_date, end_date, refresh_cache) ==
    /\ with_object => SensorObject # None
    /\ \E drop_error \in DROP_ERRORS, by_position \in BOOLEAN :
       \E r \in {compare_sensor_and_station(sensor_id,
                                            IF with_object THEN SensorObject ELSE None,
                                            start_date, end_date, cache, sensor_api, archive,
                                            api_ok, api_timeseries, api_data, today,
                                            refresh_cache, drop_error, by_position)} :
           /\ call' = [op |-> "compare_sensor_and_station", sensor_id |-> sensor_id,
                       sensor_obj |-> with_object, start_date |-> start_date,
                       end_date |-> end_date]
           /\ IF with_object
              THEN /\ measurements' = r.sensor[1].measurements
                   /\ hourly_coverage' = r.sensor[1].hourly_coverage
                   /\ hourly_means' = r.sensor[1].hourly_means
              ELSE UNCHANGED <<measurements, hourly_coverage, hourly_means, threads>>
           /\ cache' = r.cache
           /\ requests' = r.requests
           /\ urls' = r.urls
           /\ ret' = r.data
           /\ err' = r.err
           /\ UNCHANGED <<metadata_vars, archive, sensor_type, update_vars, downloaded,
                          registry_vars, warned, today, api_data, irceline_sensor, threads>>

\* find_nearest_pm_stations(sensor_id, sensor_obj, **retrieval_kwargs)
FindNearestPmStations(sensor_id, with_object, refresh_cache) ==
    /\ with_object => SensorObject # None
    /\ \E drop_error \in DROP_ERRORS, by_position \in BOOLEAN :
       \E r \in {find_nearest_pm_stations(sensor_id,
                                          IF with_object THEN SensorObject ELSE None,
                                          cache, sensor_api, api_ok, api_timeseries,
                                          refresh_cache, drop_error, by_position)} :
           /\ call' = [op |-> "find_nearest_pm_stations", sensor_id |-> sensor_id,
                       sensor_obj |-> with_object]
           /\ cache' = r.cache
           /\ requests' = r.requests
           /\ ret' = r.nearest
           /\ err' = r.err
           /\ UNCHANGED <<metadata_vars, luftdaten_vars, other_vars>>

\* Thread t comes to "Metadata.initialized or Metadata()" and reads
\* initialized: when it is False the thread enters __init__.
LazyFirstUse(t) ==
    /\ threads[t].pc = "idle"
    /\ threads' = [threads EXCEPT ![t].pc = IF initialized THEN "idle" ELSE step_after("check")]
    /\ call' = [op |-> "lazy first use", thread |-> t, step |-> "check"]
    /\ requests' = <<>>
    /\ ret' = None
    /\ err' = ""
    /\ UNCHANGED <<cache, metadata_vars, luftdaten_vars, warned, irceline_vars, update_vars,
                   downloaded, registry_vars>>

\* Thread t runs a get_ method up to its last statement: the retrieval and
\* the reshaping; an exception ends the lazy first use of the thread.
ThreadLoad(t) ==
    /\ threads[t].pc \in LOAD_STEPS
    /\ \E r \in {CASE threads[t].pc = "get_phenomena" ->
                         get_phenomena(cache, api_ok, api_timeseries, FALSE)
                    [] threads[t].pc = "get_stations" ->
                         get_stations(cache, api_ok, api_timeseries, FALSE)
                    [] OTHER -> get_time_series(cache, api_ok, api_timeseries, FALSE)} :
          /\ cache' = r.cache
          /\ threads' = [threads EXCEPT ![t] = IF r.err = ""
                                               THEN [pc |-> step_after(@.pc), table |-> r.value]
                                               ELSE IdleThread]
          /\ err' = r.err
    /\ call' = [op |-> "lazy first use", thread |-> t, step |-> threads[t].pc]
    /\ requests' = <<>>
    /\ ret' = None
    /\ UNCHANGED <<metadata_vars, luftdaten_vars, warned, irceline_vars, update_vars,
                   downloaded, registry_vars>>

\* Thread t runs the last statement of a get_ method: the assignment of the
\* table to the class attribute.
ThreadAssign(t) ==
    /\ threads[t].pc \in ASSIGN_STEPS
    /\ phenomena' = IF threads[t].pc = "set_phenomena" THEN threads[t].table ELSE phenomena
    /\ stations' = IF threads[t].pc = "set_stations" THEN threads[t].table ELSE stations
    /\ time_series' = IF threads[t].pc = "set_time_series" THEN threads[t].table
                      ELSE time_series
    /\ threads' = [threads EXCEPT ![t] = [pc |-> step_after(@.pc), table |-> None]]
    /\ call' = [op |-> "lazy first use", thread |-> t, step |-> threads[t].pc]
    /\ requests' = <<>>
    /\ ret' = None
    /\ err' = ""
    /\ UNCHANGED <<cache, api_ok, api_timeseries, initialized, luftdaten_vars, warned,
                   irceline_vars, update_vars, downloaded, registry_vars>>

\* Thread t runs "cls.initialized = True".
ThreadSetInitialized(t) ==
    /\ threads[t].pc = "set_initialized"
    /\ initialized' = TRUE
    /\ threads' = [threads EXCEPT ![t].pc = step_after(@)]
    /\ call' = [op |-> "lazy first use", thread |-> t, step |-> threads[t].pc]
    /\ requests' = <<>>
    /\ ret' = None
    /\ err' = ""
    /\ UNCHANGED <<cache, api_ok, api_timeseries, phenomena, stations, time_series,
                   luftdaten_vars, warned, irceline_vars, update_vars, downloaded,
                   registry_vars>>

\* Time passes between two calls: the clock moves on to a later instant.
\* The record of the last call stays.
ClockAdvance ==
    /\ \E t \in Clocks : t > today /\ today' = t
    /\ UNCHANGED <<cache, metadata_vars, luftdaten_vars, requests, call, ret, err, warned,
                   api_data, irceline_sensor, urls, further_vars>>

\* The endpoints of the IRCELINE API begin or cease to answer.
ApiChange ==
    /\ \E o \in [Endpoints -> BOOLEAN] \ {api_ok} : api_ok' = o
    /\ call' = [op |-> "api change"]
    /\ requests' = <<>>
    /\ ret' = None
    /\ err' = ""
    /\ UNCHANGED <<cache, api_timeseries, phenomena, stations, time_series, initialized,
                   luftdaten_vars, other_vars>>

\* retrieve(cache_file, url, label, refresh_cache=...) for the sensor URL,
\* with read_json as read_func
Retrieve(refresh_cache) ==
    \E r \in {retrieve(cache, SensorFilename(SENSOR_ID), sensor_api, refresh_cache)} :
        /\ call' = [op |-> "retrieve", refresh_cache |-> refresh_cache]
        /\ cache' = r.cache
        /\ downloaded' = r.downloaded
        /\ requests' = <<SensorFilename(SENSOR_ID)>>
        /\ ret' = IF r.data = None THEN None ELSE Some(read_json(r.data[1]))
        /\ err' = ""
        /\ UNCHANGED <<metadata_vars, luftdaten_vars, update_vars, registry_vars, warned,
                       irceline_vars, threads>>

\* The sensor URL begins to answer something else.
SensorApiChange ==
    /\ \E a \in SensorApiStates \ {sensor_api} : sensor_api' = a
    /\ call' = [op |-> "api change"]
    /\ requests' = <<>>
    /\ ret' = None
    /\ err' = ""
    /\ UNCHANGED <<cache, metadata_vars, luftdaten_vars, metadata, current_values,
                   downloaded, registry_vars, warned, irceline_vars, threads>>

\* civiclabs.get_sensors(**retrieval_kwargs)
GetSensors(refresh_cache) ==
    \E r \in {get_sensors(cache, sheet, refresh_cache)} :
        /\ call' = [op |-> "get_sensors", refresh_cache |-> refresh_cache]
        /\ cache' = r.cache
        /\ requests' = <<SENSOR_INFO_CACHE_FILE>>
        /\ ret' = r.sensors
        /\ err' = r.err
        /\ message' = r.message
        /\ UNCHANGED <<metadata_vars, luftdaten_vars, update_vars, downloaded, sheet,
                       registry, influencair_sensor, warned, irceline_vars, threads>>

\* influencair.Metadata(**retrieval_kwargs)
InfluencairMetadata(refresh_cache) ==
    \E r \in {InfluencairMetadataInit(registry, cache, sheet, refresh_cache)} :
        /\ call' = [op |-> "influencair.Metadata", refresh_cache |-> refresh_cache]
        /\ registry' = r.m
        /\ cache' = r.cache
        /\ requests' = <<SENSOR_INFO_CACHE_FILE>>
        /\ ret' = None
        /\ err' = r.err
        /\ message' = r.message
        /\ UNCHANGED <<metadata_vars, luftdaten_vars, update_vars, downloaded, sheet,
                       influencair_sensor, warned, irceline_vars, threads>>

\* sensor.get_influencair_metadata(**retrieval_kwargs)
GetInfluencairMetadata(refresh_cache) ==
    /\ influencair_sensor # None
    /\ \E r \in {get_influencair_metadata(influencair_sensor[1], registry, cache, sheet,
                                           refresh_cache)} :
        /\ call' = [op |-> "get_influencair_metadata", refresh_cache |-> refresh_cache]
        /\ registry' = r.m
        /\ influencair_sensor' = Some(r.self)
        /\ cache' = r.cache
        /\ requests' = IF registry.initialized THEN <<>> ELSE <<SENSOR_INFO_CACHE_FILE>>
        /\ ret' = None
        /\ err' = r.err
        /\ message' = r.message
        /\ UNCHANGED <<metadata_vars, luftdaten_vars, update_vars, downloaded, sheet,
                       warned, irceline_vars, threads>>

\* The sheet is edited, or its export URL begins or ceases to answer.
SheetChange ==
    /\ \E a \in SheetStates \ {sheet} : sheet' = a
    /\ call' = [op |-> "sheet change"]
    /\ requests' = <<>>
    /\ ret' = None
    /\ err' = ""
    /\ message' = None
    /\ UNCHANGED <<cache, metadata_vars, luftdaten_vars, update_vars, downloaded,
                   registry, influencair_sensor, warned, irceline_vars, threads>>

(***************************************************************************)
(* Specifications.                                                         *)
(***************************************************************************)
\* The thresholds calculate_hourly_means is called with: the default and 0.75.
Thresholds == {MIN_DATA_COVERAGE, <<3, 4>>}

\* The values get_hourly_means is called with for min_count: none, one, the
\* default.
MinCounts == {0, 1, MIN_COUNT}

Next ==
    \/ \E s \in 1..MaxDay, e \in 1..MaxDay, r \in BOOLEAN : GetData(s, e, r)
    \/ \E n \in MinCounts : GetHourlyMeans(n)
    \/ CleanData
    \/ CalculateHourlyCoverage
    \/ \E m \in Thresholds : CalculateHourlyMeans(m)

Spec == Init /\ [][Next]_vars

NextClean ==
    \/ GetData(1, 1, FALSE)
    \/ CleanData

SpecClean == InitClean /\ [][NextClean]_vars

NextNearest ==
    \/ \E r \in BOOLEAN : MetadataCall(r)
    \/ \E q \in QueryArguments : QueryTimeSeries(q[1], q[2], q[3])
    \/ \E s \in Sensors, r \in BOOLEAN, b \in BOOLEAN : FindNearestSensors(s, r, b)
    \/ \E a \in SearchArguments, i \in BOOLEAN : SearchProximity(i, a[1][1], a[1][2], a[2])

SpecNearest == InitNearest /\ [][NextNearest]_vars

NextFetch ==
    \/ IrcelineSensor(1)
    \/ \E d \in FetchDates, r \in BOOLEAN : GetMeasurements(d[1], d[2], r)
    \/ \E d \in FetchDates \cap ((1..2) \X (1..(MaxDate - 1))) : IrcelineGetData(1, d[1], d[2], TRUE)

SpecFetch == InitFetch /\ [][NextFetch]_vars

\* The sensor find_nearest_sensors is called for while the catalog loads.
LOAD_SENSOR == [lat |-> 60, lon |-> 0, phenomena |-> <<PM10_SHORT, PM25_SHORT>>]

\* The dates compare_sensor_and_station is called with, as
\* <<start_date, end_date>>: one of them, both, and a start after the end.
CompareDates ==
    {<<Some(1), None>>, <<None, Some(1)>>, <<Some(1), Some(MaxDay)>>, <<Some(MaxDay), Some(1)>>}

NextCompare ==
    \/ LuftdatenSensor(FALSE)
    \/ \E i \in {None, Some(SENSOR_ID)}, o \in BOOLEAN, d \in CompareDates :
          CompareSensorAndStation(i, o, d[1], d[2], FALSE)
    \/ \E i \in {None, Some(0), Some(SENSOR_ID)}, o \in BOOLEAN :
          FindNearestPmStations(i, o, FALSE)

SpecCompare == InitCompare /\ [][NextCompare]_vars

\* Two threads at the lazy first use of the catalog, each any number of
\* times, while the endpoints of the API begin and cease to answer.
NextThreads ==
    \/ \E t \in Threads : LazyFirstUse(t)
    \/ \E t \in Threads : ThreadLoad(t)
    \/ \E t \in Threads : ThreadAssign(t)
    \/ \E t \in Threads : ThreadSetInitialized(t)
    \/ ApiChange

SpecThreads == InitLoad /\ [][NextThreads]_vars

\* The fetches of IRCELINE data at different times of the day.
NextSpan ==
    \/ NextFetch
    \/ ClockAdvance

SpecSpan == InitFetch /\ [][NextSpan]_vars

NextLoad ==
    \/ \E r \in BOOLEAN : MetadataCall(r)
    \/ \E id \in TimeSeriesIds : IrcelineSensor(id)
    \/ \E r \in BOOLEAN : FindNearestSensors(LOAD_SENSOR, r, FALSE)
    \/ QueryTimeSeries(PM25_SHORT, Some(60), Some(0))
    \/ ApiChange

SpecLoad == InitLoad /\ [][NextLoad]_vars

NextRegistry ==
    \/ \E r \in BOOLEAN : GetSensors(r)
    \/ \E r \in BOOLEAN : InfluencairMetadata(r)
    \/ \E r \in BOOLEAN : GetInfluencairMetadata(r)
    \/ SheetChange

SpecRegistry == InitSheet /\ [][NextRegistry]_vars

NextRetrieve ==
    \/ \E r \in BOOLEAN : Retrieve(r)
    \/ SensorApiChange

SpecRetrieve == InitRetrieve /\ [][NextRetrieve]_vars

NextUpdate ==
    \/ \E r \in BOOLEAN : LuftdatenSensor(r)
    \/ \E r \in BOOLEAN : Update(r)

SpecUpdate == InitUpdate /\ [][NextUpdate]_vars

(***************************************************************************)
(* Properties of the nearest time series search.                           *)
(***************************************************************************)
\* Whether a time series of the catalog matches a phenomenon name.
Matches(row, name) == Contains(Lower(row.phenomenon), Lower(name))

\* The names of the groups of EQUIVALENT_PHENOMENA that hold the phenomenon.
GroupNames(phenomenon) ==
    UNION {{EQUIVALENT_PHENOMENA[g][i] : i \in 1..Len(EQUIVALENT_PHENOMENA[g])} :
              g \in {h \in 1..Len(EQUIVALENT_PHENOMENA) :
                        \E i \in 1..Len(EQUIVALENT_PHENOMENA[h]) :
                            EQUIVALENT_PHENOMENA[h][i] = phenomenon}}

\* The positions in the catalog of the time series that match one of the names.
Candidates(names) ==
    {i \in 1..Len(time_series[1]) : \E name \in names : Matches(time_series[1][i], name)}

\* The distance of the time series at position i of the catalog to a point.
DistanceTo(lat, lon, i) ==
    haversine(lat, lon, time_series[1][i].station_lat, time_series[1][i].station_lon)

\* query_time_series was called with both coordinates and returned.
Queried ==
    /\ call.op = "query_time_series"
    /\ err = ""
    /\ call.lat_nearest # None
    /\ call.lon_nearest # None

\* C1: query_time_series with both coordinates and at least one matching
\* time series returns exactly the matching time series, each with its
\* distance to the reference point, in the order of non-decreasing distance,
\* so that the first row is one of minimum distance.
C1_SortedByDistance ==
    (Queried /\ Candidates({call.phenomenon}) # {}) =>
        LET rows == ret[1].rows
            matching == Candidates({call.phenomenon})
        IN  /\ ret[1].distance
            /\ Len(rows) = Cardinality(matching)
            /\ \A i \in matching : \E k \in 1..Len(rows) :
                   /\ rows[k].id = time_series[1][i].id
                   /\ rows[k].label = time_series[1][i].label
                   /\ rows[k].distance = DistanceTo(call.lat_nearest[1], call.lon_nearest[1], i)
            /\ \A k \in 1..(Len(rows) - 1) : rows[k].distance <= rows[k + 1].distance
            /\ \A i \in matching :
                   rows[1].distance <= DistanceTo(call.lat_nearest[1], call.lon_nearest[1], i)

\* A query whose matching time series stand in the catalog in another order
\* than that of their distances: the first of them is not the nearest.
C1_Witness ==
    /\ Queried
    /\ \E i, j \in Candidates({call.phenomenon}) :
           /\ i < j
           /\ DistanceTo(call.lat_nearest[1], call.lon_nearest[1], j)
                  < DistanceTo(call.lat_nearest[1], call.lon_nearest[1], i)
           /\ \A h \in Candidates({call.phenomenon}) : i <= h
    /\ ret[1].rows[1].distance
           < DistanceTo(call.lat_nearest[1], call.lon_nearest[1],
                        CHOOSE i \in Candidates({call.phenomenon}) :
                            \A h \in Candidates({call.phenomenon}) : i <= h)

\* find_nearest_sensors was called and returned.
Searched == call.op = "find_nearest_sensors" /\ err = ""

\* Whether the dataframe returned has a column for the phenomenon.
HasColumn(phenomenon) == \E c \in 1..Len(ret[1]) : ret[1][c].phenomenon = phenomenon

\* C2: in find_nearest_sensors, a sensor phenomenon for which no time series
\* matches its own name or a name of its group is skipped: the call returns,
\* the result has no column for it, and the other phenomena that have matches
\* have their columns.
C2_UnmatchedSkipped ==
    (call.op = "find_nearest_sensors" /\ initialized) =>
        \A k \in 1..Len(call.sensor.phenomena) :
            Candidates({call.sensor.phenomena[k]} \cup GroupNames(call.sensor.phenomena[k])) = {}
            => /\ err = ""
               /\ ~HasColumn(call.sensor.phenomena[k])
               /\ \A j \in 1..Len(call.sensor.phenomena) :
                      Candidates(GroupNames(call.sensor.phenomena[j])) # {}
                      => HasColumn(call.sensor.phenomena[j])

\* C3, as the claim states it: a sensor phenomenon of no group is looked up
\* under its own name, and a time series that matches the name gives the
\* result a column for the phenomenon, with the nearest such time series.
C3_OwnNameLookedUp ==
    Searched =>
        \A k \in 1..Len(call.sensor.phenomena) :
            (/\ GroupNames(call.sensor.phenomena[k]) = {}
             /\ Candidates({call.sensor.phenomena[k]}) # {})
            => \E c \in 1..Len(ret[1]) :
                   /\ ret[1][c].phenomenon = call.sensor.phenomena[k]
                   /\ \A i \in Candidates({call.sensor.phenomena[k]}) :
                          ret[1][c].value.distance
                              <= DistanceTo(call.sensor.lat, call.sensor.lon, i)

\* C3, amended: a sensor phenomenon of no group of EQUIVALENT_PHENOMENA is
\* skipped; the result has no column for it, whatever the catalog holds.
C3_UngroupedSkipped ==
    Searched =>
        \A k \in 1..Len(call.sensor.phenomena) :
            GroupNames(call.sensor.phenomena[k]) = {} => ~HasColumn(call.sensor.phenomena[k])

\* A search that returned columns for a sensor with a phenomenon of no group,
\* while a time series of the catalog matches the name of that phenomenon.
C3_Witness ==
    /\ Searched
    /\ Len(ret[1]) > 0
    /\ \E k \in 1..Len(call.sensor.phenomena) :
           /\ GroupNames(call.sensor.phenomena[k]) = {}
           /\ Candidates({call.sensor.phenomena[k]}) # {}

\* C4: when find_nearest_sensors returns, every sensor phenomenon with a time
\* series that matches a name of its group has a column, and every column
\* describes a time series of minimum distance among all the time series that
\* match any name of the group, with its id, station label and distance.
C4_NearestOfGroup ==
    Searched =>
        /\ \A k \in 1..Len(call.sensor.phenomena) :
               Candidates(GroupNames(call.sensor.phenomena[k])) # {}
               => HasColumn(call.sensor.phenomena[k])
        /\ \A c \in 1..Len(ret[1]) :
               \E i \in Candidates(GroupNames(ret[1][c].phenomenon)) :
                   /\ ret[1][c].value.time_series_id = time_series[1][i].id
                   /\ ret[1][c].value.station_label = time_series[1][i].station_label
                   /\ ret[1][c].value.distance = DistanceTo(call.sensor.lat, call.sensor.lon, i)
                   /\ \A j \in Candidates(GroupNames(ret[1][c].phenomenon)) :
                          DistanceTo(call.sensor.lat, call.sensor.lon, i)
                              <= DistanceTo(call.sensor.lat, call.sensor.lon, j)

\* A column whose time series matches another name of the group than the
\* phenomenon of the sensor, and is nearer than every time series that matches
\* the phenomenon of the sensor, of which there is one.
C4_Witness ==
    /\ Searched
    /\ \E c \in 1..Len(ret[1]) :
           /\ Candidates({ret[1][c].phenomenon}) # {}
           /\ \A i \in Candidates({ret[1][c].phenomenon}) :
                  ret[1][c].value.distance < DistanceTo(call.sensor.lat, call.sensor.lon, i)

(***************************************************************************)
(* Properties of the cleaning.                                             *)
(***************************************************************************)
\* get_data was called, returned and left measurements.
Fetched == call.op = "get_data" /\ err = "" /\ measurements # None

\* The values of column c in the file of day 1, as the archive holds them.
RawColumn(c) == AsSeq([i \in 1..Len(archive[1].content) |-> archive[1].content[i].values[c]])

\* The values of column c of measurements.
CleanedColumn(c) == Column(measurements[1], c)

\* A reading of 1.0 or more that is no error value; a reading below 1.0.
IsNormal(v) == v >= DEAD_BELOW /\ v \notin ERROR_VALUES

IsDead(v) == v < DEAD_BELOW

\* C5: after clean_data, in every column, every sample of a run of 5
\* consecutive values below 1.0 between two normal values is missing,
\* wherever the run lies in the series, and no sample of a run of exactly 4
\* such values between two normal values is made missing.
C5_DeadRunsRemoved ==
    Fetched =>
        \A c \in 1..Len(measurements[1].columns) :
            /\ \A a \in 2..(Len(RawColumn(c)) - WINDOW) :
                   (/\ IsNormal(RawColumn(c)[a - 1])
                    /\ \A i \in a..(a + WINDOW - 1) : IsDead(RawColumn(c)[i])
                    /\ IsNormal(RawColumn(c)[a + WINDOW]))
                   => \A i \in a..(a + WINDOW - 1) : CleanedColumn(c)[i] = NaN
            /\ \A a \in 2..(Len(RawColumn(c)) - WINDOW + 1) :
                   (/\ IsNormal(RawColumn(c)[a - 1])
                    /\ \A i \in a..(a + WINDOW - 2) : IsDead(RawColumn(c)[i])
                    /\ IsNormal(RawColumn(c)[a + WINDOW - 1]))
                   => \A i \in a..(a + WINDOW - 2) : CleanedColumn(c)[i] = RawColumn(c)[i]

\* C6: after clean_data no value of measurements is 999.9 or 1999.9; each
\* such value of the file is missing and the row of its timestamp is kept.
C6_NoErrorValues ==
    /\ measurements # None =>
           \A i \in 1..Len(measurements[1].rows) : \A c \in 1..Len(measurements[1].columns) :
               measurements[1].rows[i].values[c] \notin ERROR_VALUES
    /\ Fetched =>
           /\ Len(measurements[1].rows) = Len(archive[1].content)
           /\ \A i \in 1..Len(archive[1].content) :
                  /\ measurements[1].rows[i].timestamp
                         = to_datetime(archive[1].content[i].timestamp)
                  /\ \A c \in 1..Len(measurements[1].columns) :
                         archive[1].content[i].values[c] \in ERROR_VALUES
                         => measurements[1].rows[i].values[c] = NaN

\* Measurements of a file with both error values: the two are missing and
\* the row of another timestamp has kept a reading.
C6_Witness ==
    /\ Fetched
    /\ \E i \in 1..Len(archive[1].content) :
           /\ archive[1].content[i].values[1] = 9999
           /\ archive[1].content[i].values[2] = 19999
           /\ measurements[1].rows[i].values = <<NaN, NaN>>
    /\ \E j \in 1..Len(measurements[1].rows) : measurements[1].rows[j].values[1] = NORMAL_VALUE

(***************************************************************************)
(* Properties of the hourly aggregation and of the fetch.                  *)
(***************************************************************************)
\* The hourly means are those of the last call: get_data computes them with
\* the default minimum, calculate_hourly_means with its argument.
MeansComputed ==
    /\ call.op \in {"get_data", "calculate_hourly_means"}
    /\ err = ""
    /\ measurements # None
    /\ hourly_means # None

MinimumUsed ==
    IF call.op = "calculate_hourly_means" THEN call.min_data_coverage ELSE MIN_DATA_COVERAGE

\* The positions of the measurements of an hour with a value in column c.
ValuesOfHour(hour, c) ==
    {i \in 1..Len(measurements[1].rows) :
        /\ measurements[1].rows[i].timestamp \div SECONDS_PER_HOUR = hour
        /\ measurements[1].rows[i].values[c] # NaN}

\* Whether min(1, n / 24) is strictly greater than the minimum <<a, b>> = a / b.
StrictlyCovered(n, minimum) ==
    IF n >= IDEAL_COUNT THEN minimum[2] > minimum[1]
    ELSE n * minimum[2] > IDEAL_COUNT * minimum[1]

MeanHours == AsSeq([k \in 1..Len(hourly_means[1].rows) |-> hourly_means[1].rows[k].period])

\* The hours of the measurements.
MeasuredHours ==
    {measurements[1].rows[i].timestamp \div SECONDS_PER_HOUR : i \in 1..Len(measurements[1].rows)}

\* C8, as the claim states it: after a fetch for [start_date, end_date]
\* hourly_means has one row for every hour from the first hour of start_date
\* to the last hour of end_date, and one column per phenomenon.
C8_RowPerHourOfWindow ==
    (Fetched /\ call.start_date <= call.end_date) =>
        /\ MeanHours = AsSeq([k \in 1..((call.end_date - call.start_date + 1) * HOURS_PER_DAY) |->
                                 (call.start_date - 1) * HOURS_PER_DAY + k - 1])
        /\ hourly_means[1].columns = DataColumns(sensor_type)

\* C8, amended: after a fetch that retrieved data hourly_means has one row
\* for every hour from the hour of the earliest measurement to the hour of the
\* latest, the hours between them without a measurement included, and one
\* column per phenomenon.
C8_RowPerHourOfData ==
    Fetched =>
        /\ MeanHours = AsSeq([k \in 1..(Max(MeasuredHours) - Min(MeasuredHours) + 1) |->
                                 Min(MeasuredHours) + k - 1])
        /\ hourly_means[1].columns = DataColumns(sensor_type)
        /\ \A k \in 1..Len(hourly_means[1].rows) :
               Len(hourly_means[1].rows[k].values) = Len(DataColumns(sensor_type))

\* A fetch whose hourly means have a row for an hour without a measurement
\* and no row for the first hour of the window.
C8_Witness ==
    /\ Fetched
    /\ \E k \in 1..Len(MeanHours) : MeanHours[k] \notin MeasuredHours
    /\ MeanHours[1] > (call.start_date - 1) * HOURS_PER_DAY

\* C9: computing the hourly means of a sensor whose fetch retrieved no data
\* does not raise and gives an empty hourly table.
C9_EmptyMeansDoNotRaise ==
    [][(/\ call.op = "get_data"
        /\ err = ""
        /\ measurements = None
        /\ call'.op = "calculate_hourly_means")
       => (/\ err' = ""
           /\ hourly_means' # None
           /\ Len(hourly_means'[1].rows) = 0)]_vars

\* The days of the last get_data that the archive has a file for.
AvailableDays == {d \in call.start_date..call.end_date : archive[d].ok}

\* C10: get_data(start_date, end_date) passes one daily resource to retrieve
\* for each day from start_date to end_date, in ascending order; a day without
\* a resource does not raise and does not end the loop; the measurements are
\* the rows of the days that have a resource, and an error is raised for a
\* sensor type without a parsing method only, at a day that has a resource.
C10_OneResourcePerDay ==
    call.op = "get_data" =>
        /\ (sensor_type \in {SDS011, DHT22} \/ AvailableDays = {}) <=> err = ""
        /\ err = "" =>
               /\ requests = AsSeq([k \in 1..(call.end_date - call.start_date + 1) |->
                                       ArchiveFilename(call.start_date + k - 1,
                                                       Lower(sensor_type), SENSOR_ID)])
               /\ (measurements = None) <=> (AvailableDays = {})
               /\ measurements # None =>
                      {measurements[1].rows[i].timestamp : i \in 1..Len(measurements[1].rows)}
                          = UNION {{to_datetime(archive[d].content[i].timestamp) :
                                       i \in 1..Len(archive[d].content)} : d \in AvailableDays}

\* A fetch of two days or more whose first day has no resource and whose
\* last day has one: both were requested and the measurements are there.
C10_Witness ==
    /\ Fetched
    /\ call.start_date < call.end_date
    /\ ~archive[call.start_date].ok
    /\ archive[call.end_date].ok
    /\ Len(requests) = call.end_date - call.start_date + 1

\* The records of the files the last get_data retrieved, day by day and in
\* the order of each file.
RetrievedRecords ==
    concat(AsSeq([k \in 1..(call.end_date - call.start_date + 1) |->
                    IF archive[call.start_date + k - 1].ok
                    THEN archive[call.start_date + k - 1].content
                    ELSE <<>>]))

\* C11: after a get_data that retrieved data the timestamps of measurements
\* are pairwise distinct and strictly ascending, and every row is the last of
\* the retrieved records of its timestamp, in day-by-day and in-file order:
\* it has the readings of that record that cleaning leaves alone.
C11_DistinctAscendingKeepLast ==
    Fetched =>
        /\ \A i \in 1..(Len(measurements[1].rows) - 1) :
               measurements[1].rows[i].timestamp < measurements[1].rows[i + 1].timestamp
        /\ \A i \in 1..Len(measurements[1].rows) : \E j \in 1..Len(RetrievedRecords) :
               /\ to_datetime(RetrievedRecords[j].timestamp) = measurements[1].rows[i].timestamp
               /\ \A h \in (j + 1)..Len(RetrievedRecords) :
                      RetrievedRecords[h].timestamp # RetrievedRecords[j].timestamp
               /\ \A c \in 1..Len(measurements[1].columns) :
                      IsNormal(RetrievedRecords[j].values[c])
                      => measurements[1].rows[i].values[c] = RetrievedRecords[j].values[c]

\* A fetch of a file with two records of one timestamp and different
\* readings, not in the order of time: the row kept has the readings of the
\* later record.
C11_Witness ==
    /\ Fetched
    /\ \E j, h \in 1..Len(RetrievedRecords) :
           /\ j < h
           /\ RetrievedRecords[j].timestamp = RetrievedRecords[h].timestamp
           /\ IsNormal(RetrievedRecords[j].values[1])
           /\ IsNormal(RetrievedRecords[h].values[1])
           /\ RetrievedRecords[j].values[1] # RetrievedRecords[h].values[1]
           /\ \E i \in 1..Len(measurements[1].rows) :
                  /\ measurements[1].rows[i].timestamp = to_datetime(RetrievedRecords[h].timestamp)
                  /\ measurements[1].rows[i].values[1] = RetrievedRecords[h].values[1]
    /\ \E j \in 1..(Len(RetrievedRecords) - 1) :
           to_datetime(RetrievedRecords[j + 1].timestamp) < to_datetime(RetrievedRecords[j].timestamp)

(***************************************************************************)
(* Properties of the measurement fetches.                                  *)
(***************************************************************************)
\* The values the last fetch of the irceline Sensor retrieved: what the
\* cache file it passed to retrieve holds.
RetrievedValues == cache[requests[1]][1]

\* C12: once a measurement fetch returns normally, the measurements of the
\* sensor (and hourly_coverage and hourly_means of a luftdaten sensor)
\* reflect that call only: no row or aggregate of an earlier call remains,
\* also when the range of the call yields no data.
C12_ReflectsLastFetch ==
    /\ (call.op = "get_data" /\ err = "") =>
           IF AvailableDays = {}
           THEN measurements = None /\ hourly_coverage = None /\ hourly_means = None
           ELSE /\ \A i \in 1..Len(measurements[1].rows) :
                       \E j \in 1..Len(RetrievedRecords) :
                           to_datetime(RetrievedRecords[j].timestamp)
                               = measurements[1].rows[i].timestamp
                /\ \A k \in 1..Len(hourly_means[1].rows) :
                       /\ hourly_means[1].rows[k].period >= Min(MeasuredHours)
                       /\ hourly_means[1].rows[k].period <= Max(MeasuredHours)
                       /\ hourly_coverage[1].rows[k].period = hourly_means[1].rows[k].period
    /\ (call.op = "get_measurements" /\ err = "") =>
           IF Len(RetrievedValues) = 0
           THEN \/ irceline_sensor[1].measurements = None
                \/ Len(irceline_sensor[1].measurements[1].rows) = 0
           ELSE /\ irceline_sensor[1].measurements # None
                /\ Len(irceline_sensor[1].measurements[1].rows) = Len(RetrievedValues)
                /\ \A i \in 1..Len(RetrievedValues) :
                       /\ irceline_sensor[1].measurements[1].rows[i].period * SECONDS_PER_HOUR * 1000
                              = RetrievedValues[i].timestamp
                       /\ irceline_sensor[1].measurements[1].rows[i].value
                              = RetrievedValues[i].value

\* The date of the clock, and the last instant of the day before it.
TodayDate == (today \div SECONDS_PER_DAY) + 1

EndOfYesterday == (TodayDate - 1) * SECONDS_PER_DAY - 1

\* The last instant of the timespan the last fetch of IRCELINE data asked for.
SpanEnd == local_to_utc(urls[1].end)

\* C13: a fetch of IRCELINE data with end_date the current UTC day or a
\* later day emits a warning instead of raising, and the timespan it asks for
\* ends with the last instant of the most recent fully elapsed UTC day; with
\* an earlier end_date the timespan runs through the end of end_date.  (Start
\* dates are those before the current day and not after end_date.)
C13_EndTruncatedToYesterday ==
    (/\ call.op \in {"get_measurements", "irceline.get_data"}
     /\ call.start_date <= call.end_date
     /\ call.start_date < TodayDate) =>
        IF call.end_date >= TodayDate
        THEN /\ Len(warned) > 0
             /\ err # "ValueError"
             /\ Len(urls) = 1
             /\ SpanEnd = EndOfYesterday
        ELSE /\ Len(warned) = 0
             /\ err # "ValueError"
             /\ Len(urls) = 1
             /\ SpanEnd = call.end_date * SECONDS_PER_DAY - 1

\* The end date of a fetch of IRCELINE data after truncation.
TruncatedEndDate(end_date) == IF end_date >= TodayDate THEN TodayDate - 1 ELSE end_date

\* C14: a measurement fetch with start_date later than end_date (end_date
\* after truncation), also by one day only, raises ValueError before any
\* retrieval is attempted and leaves the measurements of the sensor as they
\* were.
C14_ReversedDatesRaise ==
    [][/\ (call'.op = "get_measurements"
           /\ call'.start_date > TruncatedEndDate(call'.end_date))
          => (/\ err' = "ValueError"
              /\ requests' = <<>>
              /\ irceline_sensor' = irceline_sensor)
       /\ (call'.op = "irceline.get_data"
           /\ call'.start_date > TruncatedEndDate(call'.end_date))
          => (err' = "ValueError" /\ requests' = <<>>)
       /\ (call'.op = "get_data" /\ call'.start_date > call'.end_date)
          => (/\ err' = "ValueError"
              /\ requests' = <<>>
              /\ measurements' = measurements)]_vars

(***************************************************************************)
(* Properties of the luftdaten metadata fetch.                             *)
(***************************************************************************)
\* What an update retrieves in the current state: None after a status code
\* that is not 2xx.
Retrieved(refresh_cache) ==
    retrieve(cache, SensorFilename(SENSOR_ID), sensor_api, refresh_cache).data

\* Whether retrieved data hold a usable record: a first object with the
\* sensor type, the readings and their timestamp.
Usable(data) ==
    /\ data # None
    /\ Len(data[1]) > 0
    /\ {"sensor_sensor_type_name", "sensordatavalues", "timestamp"} \subseteq DOMAIN data[1][1]

\* C15: every update (also the one of the constructor) whose response holds
\* no usable record, being empty, malformed or not retrieved, raises the
\* ValueError "Sensor does not appear to be online"; it does not return
\* with the earlier metadata in place.
C15_UnusableResponseRaisesOffline ==
    [][(/\ call'.op \in {"update", "luftdaten.Sensor"}
        /\ ~Usable(Retrieved(call'.refresh_cache)))
       => (err' = "ValueError" /\ ~(err' = "" /\ metadata' = metadata))]_vars

(***************************************************************************)
(* Properties of the loads of the catalog.                                 *)
(***************************************************************************)
\* The cache file of an endpoint.
CacheFileOf(endpoint) ==
    CASE endpoint = "phenomena" -> phenomena_cache_file
      [] endpoint = "stations" -> stations_cache_file
      [] OTHER -> time_series_cache_file

\* Whether a load made in the current state meets a retrieval that reports
\* non-success: an endpoint that does not answer and is asked, its file
\* being absent or to be refreshed.
FailedRetrieval(refresh_cache) ==
    \E e \in Endpoints :
        /\ ~api_ok[e]
        /\ refresh_cache \/ cache[CacheFileOf(e)] = None

\* C16: a Metadata load one of whose retrievals reports non-success raises
\* and leaves the catalog uninitialized, whatever loads came before:
\* initialized is False and phenomena, stations and time_series are None.
C16_FailedLoadLeavesNothing ==
    [][(call'.op = "Metadata" /\ FailedRetrieval(call'.refresh_cache))
       => (/\ err' # ""
           /\ ~initialized'
           /\ phenomena' = None
           /\ stations' = None
           /\ time_series' = None)]_vars

\* C17: once a load of the catalog has completed, the construction of a
\* Sensor, find_nearest_sensors and the queries of the catalog retrieve
\* nothing: no cache file is asked for and none is written.
C17_LoadedCatalogNotRetrievedAgain ==
    [][(initialized /\ call'.op \in {"Sensor", "find_nearest_sensors", "query_time_series"})
       => (requests' = <<>> /\ cache' = cache /\ initialized')]_vars

\* The catalog is loaded, its endpoints have ceased to answer, and
\* find_nearest_sensors, asked to refresh the cache, returned without a
\* retrieval.
C17_Witness ==
    /\ initialized
    /\ call.op = "find_nearest_sensors"
    /\ call.refresh_cache
    /\ \A e \in Endpoints : ~api_ok[e]
    /\ requests = <<>>
    /\ err = ""

(***************************************************************************)
(* Properties of retrieve.                                                 *)
(***************************************************************************)
\* C18: retrieve makes a request to the URL exactly when refresh_cache is
\* set or the cache file is absent; after a download that succeeded the
\* cache file holds the content of the response; with the cache file
\* present and refresh_cache not set the cache is left alone and the parsed
\* content of the file is returned.
C18_DownloadIffRefreshOrMissing ==
    [][call'.op = "retrieve" =>
        /\ downloaded' <=> (call'.refresh_cache \/ cache[SensorFilename(SENSOR_ID)] = None)
        /\ (downloaded' /\ sensor_api.ok) =>
               /\ cache'[SensorFilename(SENSOR_ID)] = Some(sensor_api.content)
               /\ ret' = Some(read_json(sensor_api.content))
        /\ ~downloaded' =>
               /\ cache' = cache
               /\ ret' = Some(read_json(cache[SensorFilename(SENSOR_ID)][1]))]_vars

\* retrieve returned the cached content without a request although the URL
\* answers something else by now.
C18_Witness ==
    /\ call.op = "retrieve"
    /\ ~downloaded
    /\ sensor_api.ok
    /\ cache[SensorFilename(SENSOR_ID)] # Some(sensor_api.content)
    /\ ret = Some(read_json(cache[SensorFilename(SENSOR_ID)][1]))

(***************************************************************************)
(* Properties of the registry.                                             *)
(***************************************************************************)
\* The rows of a table of the registry that have the id as their PM Sensor
\* ID or as their Hum/Temp Sensor ID.
Listed(sensor_id, sensors) ==
    {i \in 1..Len(sensors.rows) :
        \/ sensors.rows[i]["PM Sensor ID"] = sensor_id
        \/ sensors.rows[i]["Hum/Temp Sensor ID"] = sensor_id}

\* C19: with the registry loaded, get_influencair_metadata raises ValueError
\* exactly when no row of the registry has the id of the sensor as its PM
\* Sensor ID or its Hum/Temp Sensor ID; otherwise influencair_metadata and
\* chip_id are those of the first such row.  Whenever it raises,
\* influencair_metadata and chip_id keep their values.
C19_NotListedIffNoRow ==
    [][call'.op = "get_influencair_metadata" =>
        /\ registry'.initialized =>
               LET listed == Listed(influencair_sensor[1].sensor_id, registry'.sensors[1])
                   row == registry'.sensors[1].rows[Min(listed)]
               IN  /\ (err' = "ValueError") <=> (listed = {})
                   /\ listed # {} =>
                          /\ err' = ""
                          /\ influencair_sensor'[1].influencair_metadata =
                                 Some([c \in (DOMAIN row) \ ID_COLUMNS |-> row[c]])
                          /\ influencair_sensor'[1].chip_id = Some(row["Chip ID"])
        /\ err' # "" =>
               /\ influencair_sensor'[1].influencair_metadata =
                      influencair_sensor[1].influencair_metadata
               /\ influencair_sensor'[1].chip_id = influencair_sensor[1].chip_id]_vars

\* A sensor that was found in the registry is looked up again after the
\* registry was loaded from a sheet that does not list it: the lookup raised
\* and the chip of the earlier lookup is still there.
C19_Witness ==
    /\ call.op = "get_influencair_metadata"
    /\ err = "ValueError"
    /\ registry.initialized
    /\ influencair_sensor[1].chip_id = Some(PyStr("c1"))
    /\ influencair_sensor[1].influencair_metadata # None

\* The expected columns that the sheet a load retrieves in the current state
\* lacks; none when the retrieval reports non-success.
MissingColumns(columns, refresh_cache) ==
    LET r == retrieve(cache, SENSOR_INFO_CACHE_FILE, sheet, refresh_cache)
    IN  IF r.data = None THEN {}
        ELSE Elements(columns) \ Elements(read_csv(r.data[1]).columns)

\* The expected columns of the last load of the registry.
ExpectedColumns(op) == IF op = "get_sensors" THEN CIVICLABS_COLUMNS ELSE INFLUENCAIR_COLUMNS

\* Whether the message of an exception names a column.
Names(msg, column) ==
    /\ msg # None
    /\ \E k \in 1..Len(msg[1].args) : msg[1].args[k] = column

C21_ValueErrorIffOneCoordinate ==
    call.op = "query_time_series" =>
        /\ (err = "ValueError") <=> ((call.lat_nearest = None) # (call.lon_nearest = None))
        /\ (call.lat_nearest = None /\ call.lon_nearest = None /\ time_series # None) =>
               /\ err = ""
               /\ ~ret[1].distance
               /\ ret[1].rows = SelectSeq(time_series[1],
                                          LAMBDA row : Matches(row, call.phenomenon))

\* A query without coordinates returned a time series whose phenomenon
\* differs in case from the name asked for, and a query with latitude 0 and
\* longitude 0 is among the calls (it returns with a distance column).
C21_Witness ==
    /\ call.op = "query_time_series"
    /\ call.lat_nearest = None
    /\ call.lon_nearest = None
    /\ err = ""
    /\ Len(ret[1].rows) > 0
    /\ ~ret[1].distance
    /\ ~Contains(ret[1].rows[1].phenomenon, call.phenomenon)

\* The great-circle distance in km between the centre of the search made
\* and the station of row x.
FromCentre(x) == haversine(call.lat, call.lon, x.lat, x.lon)

\* The rows returned are exactly the stations of the catalog within the
\* radius of the search, each once, with its distance, nearest first.
ExactlyTheNearStations ==
    /\ err = ""
    /\ \A i \in 1..Len(ret[1]) :
           /\ \E j \in 1..Len(stations[1]) :
                  /\ stations[1][j].id = ret[1][i].id
                  /\ stations[1][j].lat = ret[1][i].lat
                  /\ stations[1][j].lon = ret[1][i].lon
           /\ ret[1][i].distance = FromCentre(ret[1][i])
           /\ ret[1][i].distance <= call.radius
    /\ \A j \in 1..Len(stations[1]) :
           FromCentre(stations[1][j]) <= call.radius
               => Cardinality({i \in 1..Len(ret[1]) : ret[1][i].id = stations[1][j].id}) = 1
    /\ \A i \in 1..(Len(ret[1]) - 1) : ret[1][i].distance <= ret[1][i + 1].distance

\* C22: search_proximity(lat, lon, radius) returns exactly the stations whose
\* great-circle distance from the point (lat, lon) is at most radius km, each
\* with that distance, in order of non-decreasing distance, for the
\* class-level catalog and for the instance catalog alike.
C22_StationsWithinRadius ==
    (call.op = "search_proximity" /\ stations # None) => ExactlyTheNearStations

\* The class-level catalog alone: its search_proximity passes (lat, lon) in
\* the order haversine takes them.
C22_ClassLevelWithinRadius ==
    (call.op = "search_proximity" /\ stations # None /\ ~call.instance)
        => ExactlyTheNearStations

\* A search of the class-level catalog from latitude 60 returned the station
\* at the centre and the two stations 60 degrees of longitude away, and left
\* out the station on the equator.
C22_Witness ==
    /\ call.op = "search_proximity"
    /\ ~call.instance
    /\ call.lat = 60
    /\ call.radius = ArcKm[2]
    /\ err = ""
    /\ Len(ret[1]) = 3
    /\ ret[1][1].distance = 0
    /\ ret[1][3].distance = ArcKm[2]

(***************************************************************************)
(* Further properties of the cleaning.                                     *)
(***************************************************************************)
\* C23: in a series of fewer than 5 samples clean_data flags nothing by the
\* dead-run rule: every value of the file that is not 999.9 or 1999.9 is in
\* measurements as it was, values below 1.0 included.
C23_ShortSeriesKeptAsIs ==
    (Fetched /\ Len(archive[1].content) < WINDOW) =>
        /\ Len(measurements[1].rows) = Len(archive[1].content)
        /\ \A c \in 1..Len(measurements[1].columns) : \A i \in 1..Len(RawColumn(c)) :
               RawColumn(c)[i] \notin ERROR_VALUES => CleanedColumn(c)[i] = RawColumn(c)[i]

\* A file of 4 samples whose first column is all below 1.0 was cleaned, and
\* the 4 values are in measurements.
C23_Witness ==
    /\ Fetched
    /\ Len(archive[1].content) = WINDOW - 1
    /\ \A i \in 1..(WINDOW - 1) : IsDead(RawColumn(1)[i])
    /\ \A i \in 1..(WINDOW - 1) : CleanedColumn(1)[i] = DEAD_VALUE

(***************************************************************************)
(* Properties of BaseSensor.get_hourly_means.                              *)
(***************************************************************************)
\* The values of column c that are present in the rows of hour h of
\* measurements, as the positions of their rows.
PresentInHour(h, c) ==
    {i \in 1..Len(measurements[1].rows) :
        /\ Period(measurements[1].rows[i].timestamp) = h
        /\ measurements[1].rows[i].values[c] # NaN}

\* The hours from the hour of the first row of measurements to the hour of
\* the last.
HoursOfMeasurements ==
    {h \in 0..(MaxDay * HOURS_PER_DAY) :
        /\ \E i \in 1..Len(measurements[1].rows) : Period(measurements[1].rows[i].timestamp) <= h
        /\ \E i \in 1..Len(measurements[1].rows) : Period(measurements[1].rows[i].timestamp) >= h}

\* C24: get_hourly_means(min_count) returns one row for every hour from the
\* first measurement to the last, and in it, for each phenomenon, the
\* arithmetic mean of the present values of the hour if they are at least
\* min_count (and at least one), and an undefined value otherwise.
C24_MeanOfHoursWithMinCount ==
    (call.op = "get_hourly_means" /\ err = "") =>
        /\ Len(ret[1].rows) = Cardinality(HoursOfMeasurements)
        /\ \A h \in HoursOfMeasurements : \E k \in 1..Len(ret[1].rows) : ret[1].rows[k].period = h
        /\ \A k \in 1..Len(ret[1].rows) : \A c \in 1..Len(ret[1].columns) :
               LET present == PresentInHour(ret[1].rows[k].period, c)
                   value == ret[1].rows[k].values[c]
               IN  IF Cardinality(present) >= call.min_count /\ present # {}
                   THEN /\ value # NaNRat
                        /\ value[1] * Cardinality(present)
                               = SumAt(measurements[1], c, present) * value[2]
                   ELSE value = NaNRat

\* Hourly means with the default min_count: a column has a mean in one hour
\* and is undefined in another hour that has a present value.
C24_Witness ==
    /\ call.op = "get_hourly_means"
    /\ call.min_count = MIN_COUNT
    /\ err = ""
    /\ \E k, l \in 1..Len(ret[1].rows) :
           /\ ret[1].rows[k].values[1] # NaNRat
           /\ ret[1].rows[l].values[1] = NaNRat
           /\ PresentInHour(ret[1].rows[l].period, 1) # {}

(***************************************************************************)
(* Properties of the comparison of a sensor and the stations.              *)
(***************************************************************************)
\* Exactly one of sensor_id and sensor_obj was given to the call.
ExactlyOneSensorGiven == (call.sensor_id # None) # call.sensor_obj

\* C25: compare_sensor_and_station and find_nearest_pm_stations raise
\* ValueError unless exactly one of sensor_id and sensor_obj is given, and
\* compare_sensor_and_station raises ValueError unless both dates are given;
\* when such a check fails no sensor was created and nothing was retrieved.
C25_ArgumentsCheckedFirst ==
    /\ (call.op \in {"compare_sensor_and_station", "find_nearest_pm_stations"}
        /\ ~ExactlyOneSensorGiven)
           => err = "ValueError" /\ requests = <<>>
    /\ (call.op = "compare_sensor_and_station"
        /\ (call.start_date = None \/ call.end_date = None))
           => err = "ValueError" /\ requests = <<>>

\* The checks that are made: find_nearest_pm_stations raises ValueError
\* before any retrieval unless exactly one of sensor_id and sensor_obj is
\* given, and compare_sensor_and_station does unless both dates are given.
C25_ChecksMade ==
    /\ (call.op = "find_nearest_pm_stations" /\ call.sensor_id # Some(0)
        /\ ~ExactlyOneSensorGiven)
           => err = "ValueError" /\ requests = <<>>
    /\ (call.op = "compare_sensor_and_station"
        /\ (call.start_date = None \/ call.end_date = None))
           => err = "ValueError" /\ requests = <<>>

\* compare_sensor_and_station was given a sensor ID and a sensor object,
\* with both dates, and returned the comparison.
C25_Witness ==
    /\ call.op = "compare_sensor_and_station"
    /\ call.sensor_id # None
    /\ call.sensor_obj
    /\ err = ""
    /\ ret # None

(***************************************************************************)
(* Properties of the cleaning: what it leaves alone.                       *)
(***************************************************************************)
\* The measurements are the file of day 1 after one cleaning or more.
CleanedOnce ==
    /\ call.op \in {"get_data", "clean_data"}
    /\ err = ""
    /\ measurements # None

\* C26: clean_data makes a value missing only if it is 999.9 or 1999.9 or
\* below 1.0: in every column a reading of 1.0 or more that is no such error
\* value is as it was in the file, whatever its neighbours and the other
\* column hold, and the rows keep their timestamps.
C26_NormalReadingsUntouched ==
    CleanedOnce =>
        /\ Len(measurements[1].rows) = Len(archive[1].content)
        /\ \A i \in 1..Len(archive[1].content) :
               /\ measurements[1].rows[i].timestamp = to_datetime(archive[1].content[i].timestamp)
               /\ \A c \in 1..Len(measurements[1].columns) :
                      /\ IsNormal(RawColumn(c)[i]) => CleanedColumn(c)[i] = RawColumn(c)[i]
                      /\ CleanedColumn(c)[i] \in {NaN, RawColumn(c)[i]}

\* A run of dead readings was removed from the first column: in these rows
\* the second column has kept its normal readings, and the normal reading
\* next to the run in the first column is kept.
C26_Witness ==
    /\ CleanedOnce
    /\ \E i \in 2..Len(archive[1].content) :
           /\ IsDead(RawColumn(1)[i])
           /\ CleanedColumn(1)[i] = NaN
           /\ CleanedColumn(2)[i] = NORMAL_VALUE
           /\ IsNormal(RawColumn(1)[i - 1])
           /\ CleanedColumn(1)[i - 1] = NORMAL_VALUE

\* C27: clean_data is idempotent: a clean_data on measurements that were
\* cleaned before (by get_data, which cleans and then aggregates, or by an
\* earlier clean_data) changes nothing, so that after it hourly_means are
\* still the means of the measurements that the sensor holds.
C27_CleaningIsIdempotent ==
    [][(call'.op = "clean_data" /\ measurements # None)
          => /\ err' = ""
             /\ measurements' = measurements
             /\ hourly_means' = Some(calculate_hourly_means(measurements'[1],
                                                            hourly_coverage'[1],
                                                            MIN_DATA_COVERAGE))]_vars

\* The second cleaning, after get_data, of a series in which the first one
\* made an error value and dead readings missing and left dead readings.
C27_Witness ==
    /\ call.op = "clean_data"
    /\ err = ""
    /\ measurements # None
    /\ \E i, j, k \in 1..Len(archive[1].content) :
           /\ RawColumn(1)[i] \in ERROR_VALUES
           /\ IsDead(RawColumn(1)[j]) /\ CleanedColumn(1)[j] = NaN
           /\ IsDead(RawColumn(1)[k]) /\ CleanedColumn(1)[k] = DEAD_VALUE

\* The same of the cleaning that compare_sensor_and_station applies to its
\* sensor after get_data: the measurements it leaves in the sensor object
\* are those that hourly_means are the means of.
C27_ComparisonKeepsMeasurements ==
    (call.op = "compare_sensor_and_station" /\ call.sensor_obj /\ measurements # None)
        => hourly_means = Some(calculate_hourly_means(measurements[1], hourly_coverage[1],
                                                      MIN_DATA_COVERAGE))

(***************************************************************************)
(* Properties of the lazy first use of the catalog by two threads.         *)
(***************************************************************************)
\* The three tables of the catalog are set.
Populated == phenomena # None /\ stations # None /\ time_series # None

\* C28: in every state that two threads at the lazy first use of the catalog
\* reach, whatever their interleaving and whichever loads fail, initialized
\* implies that phenomena, stations and time_series are set; and a table
\* that is set is not unset, nor is initialized, so that a reader that has
\* seen initialized True finds the tables set afterwards.
C28_InitializedImpliesPopulated ==
    /\ [](initialized => Populated)
    /\ [][/\ phenomena # None => phenomena' # None
          /\ stations # None => stations' # None
          /\ time_series # None => time_series' # None
          /\ initialized => initialized']_vars

\* One thread has completed the load and set initialized while the other,
\* which had found initialized False, is within its own load and about to
\* fail at an endpoint that has ceased to answer.
C28_Witness ==
    /\ initialized
    /\ \E t \in Threads : threads[t].pc = "get_time_series"
    /\ ~api_ok["timeseries"]

(***************************************************************************)
(* Properties of retrieve: downloads that fail.                            *)
(***************************************************************************)
\* C29: a retrieve whose download is answered with a status that is not 2xx
\* returns no data and leaves the cache as it is, without the file if there
\* was none and with the earlier copy if it was a refresh; and a retrieve
\* that finds no cached copy makes the request again, also after a call
\* that failed, and returns what the URL answers by then.
C29_FailedDownloadLeavesCache ==
    [][call'.op = "retrieve" =>
        /\ (downloaded' /\ ~sensor_api.ok) => (ret' = None /\ cache' = cache)
        /\ cache[SensorFilename(SENSOR_ID)] = None =>
               /\ downloaded'
               /\ sensor_api.ok => ret' = Some(read_json(sensor_api.content))]_vars

\* A refresh has failed and the copy cached earlier is in the cache.
C29_Witness ==
    /\ call.op = "retrieve"
    /\ call.refresh_cache
    /\ downloaded
    /\ ~sensor_api.ok
    /\ ret = None
    /\ cache[SensorFilename(SENSOR_ID)] # None
    /\ Len(cache[SensorFilename(SENSOR_ID)][1]) > 0

(***************************************************************************)
(* Properties of the cache files of the IRCELINE data.                     *)
(***************************************************************************)
\* The last two calls were fetches of IRCELINE data by the same function
\* that passed the same cache file name to retrieve.
SameCacheFileAgain ==
    /\ call.op \in {"get_measurements", "irceline.get_data"}
    /\ call'.op = call.op
    /\ requests # <<>>
    /\ requests' = requests

\* C30: the timespan a fetch of IRCELINE data requests is a function of its
\* cache file name: a fetch that uses the cache file name of the fetch before
\* it builds the URL of the same timespan, whatever the instant of either.
C30_SpanIsFunctionOfCacheFile ==
    [][SameCacheFileAgain => urls' = urls]_vars

\* A fetch used the cache file name of the fetch before it at a later
\* instant, and got the cached file.
C30_Witness ==
    /\ call.op = "get_measurements"
    /\ err = ""
    /\ requests # <<>>
    /\ today = normalize(MaxDate - 1) + 13 * SECONDS_PER_HOUR + 1800
    /\ cache[requests[1]] # None
    /\ urls # <<>>
    /\ strftime_local_second(today - 1) = urls[1].end

====
